---- MODULE Spec2Model ----
(***************************************************************************)
(* A model of the aillm RAG runtime (package aillm): the indexer and its   *)
(* key handling over the Redis store, the session memory managers, and the *)
(* query orchestrator AskLLM with its streaming interceptor.               *)
(*                                                                         *)
(* Strings are sequences of symbols.  A symbol is either one character of  *)
(* a caller-supplied name or one of the fixed words the code concatenates  *)
(* ("doc", "context", ":", ...).  The fixed words consist of characters of *)
(* the class [a-zA-Z0-9:_-], neither start nor end with an underscore and  *)
(* hold no double underscore, so the regular expression and the "__"       *)
(* replacement of the code act on them as the identity.                    *)
(***************************************************************************)
EXTENDS Integers, Sequences, FiniteSets, TLC

(***************************************************************************)
(* Bounds of the model.                                                    *)
(***************************************************************************)
MaxStrLen == 5      \* longest string handed to sanitizeRedisKey
MaxChunks == 1      \* most chunks the splitter produces for one content
MaxUUID == 4        \* fresh document ids the vector store hands out
MaxOps == 3         \* indexer calls in one run
MaxAsks == 2        \* AskLLM calls in one run
MaxCallers == 3     \* concurrent AskLLM calls on one session
MaxLangCallers == 2 \* concurrent calls that touch the language cache
MaxLangOps == 3     \* calls that touch the language cache in one run
MaxSearchOps == 3   \* ingestions and retrievals in one run, one retrieval at most
MaxQueryLen == 4    \* longest query of a lexical search
MaxLexOps == 2      \* lexical searches in one run
MaxHybridDocs == 2  \* documents a search of the store returns
MaxToolCalls == 2       \* tool calls in the first response of the tool-call loop
MaxClock == 320         \* minutes of the ephemeral memory manager's life
MaxTextLen == 5         \* symbols of a text to split
MaxChunkSize == 3       \* chunkSize of splitTextIntoFixedSizedChunks
MaxIterations == 7      \* iterations of the splitting loop followed

(***************************************************************************)
(* Characters of caller-supplied names: "a" stands for the characters of   *)
(* [a-zA-Z0-9:-], "_" is the underscore, " " stands for every character    *)
(* outside [a-zA-Z0-9:_-].                                                 *)
(***************************************************************************)
Alphabet == {"a", "_", " "}

OutsideKeyClass == {" "}

RECURSIVE SeqsUpTo(_, _)
SeqsUpTo(S, n) ==
    IF n = 0 THEN {<<>>}
    ELSE LET shorter == SeqsUpTo(S, n - 1)
         IN  shorter \cup {Append(s, c) : s \in {t \in shorter : Len(t) = n - 1}, c \in S}

(***************************************************************************)
(* regexp `[^a-zA-Z0-9:_-]` ReplaceAllString(input, "_")                   *)
(***************************************************************************)
ReplaceOutsideClass(s) ==
    [i \in 1..Len(s) |-> IF s[i] \in OutsideKeyClass THEN "_" ELSE s[i]]

(***************************************************************************)
(* strings.ReplaceAll(s, "__", "_"): one left-to-right pass over           *)
(* non-overlapping occurrences.                                            *)
(***************************************************************************)
RECURSIVE ReplaceAllDouble(_)
ReplaceAllDouble(s) ==
    IF Len(s) < 2 THEN s
    ELSE IF s[1] = "_" /\ s[2] = "_"
         THEN <<"_">> \o ReplaceAllDouble(SubSeq(s, 3, Len(s)))
         ELSE <<s[1]>> \o ReplaceAllDouble(Tail(s))

(***************************************************************************)
(* strings.Trim(s, "_")                                                    *)
(***************************************************************************)
RECURSIVE TrimLeft(_)
TrimLeft(s) ==
    IF s # <<>> /\ s[1] = "_" THEN TrimLeft(Tail(s)) ELSE s

RECURSIVE TrimRight(_)
TrimRight(s) ==
    IF s # <<>> /\ s[Len(s)] = "_" THEN TrimRight(SubSeq(s, 1, Len(s) - 1)) ELSE s

TrimUnderscore(s) == TrimRight(TrimLeft(s))

sanitizeRedisKey(input) ==
    TrimUnderscore(ReplaceAllDouble(ReplaceOutsideClass(input)))


(***************************************************************************)
(* State.                                                                  *)
(*  store, indexer:                                                        *)
(*   redisDocs  the hash documents of the vector store (one per chunk)     *)
(*   rawDocs    the JSON records rawDocs:<prefix>:<index>, by key          *)
(*   nextUUID   the next fresh document id of the vector store             *)
(*   nOps       indexer calls made so far                                  *)
(*   lastOp     the last indexer call and what it returned                 *)
(*  key sanitization:                                                      *)
(*   keyInput, keyOnce, keyTwice, keyPc                                    *)
(*  orchestrator (AskLLM) and session memory:                              *)
(*   memoryMap  MemoryManager.memoryMap: session -> Memory                 *)
(*   rawMemory  the records rawMemory:Memory:<session>, by session         *)
(*   req        the request in flight: options, locals and position        *)
(*   ic         the variables the streaming closure of AskLLM captures     *)
(*   llmOut     the LLM call in progress: text still to stream, text       *)
(*              streamed, calls made, checkpoints reported                 *)
(*   caller     what the caller's streaming function has seen and answered *)
(*   llmResult  what the last AskLLM returned                              *)
(*   nAsks      AskLLM calls made so far                                   *)
(*  concurrent AskLLM calls inside PersistentMemory.AddMemory:             *)
(*   pmPc       each call's position in AddMemory                          *)
(*   pmLocal    each call's curUserMemory                                  *)
(*   pmOrder    the calls in the order they wrote the record               *)
(*   pmRead     what the last PersistentMemory.GetMemory returned          *)
(*  retrieval scopes:                                                      *)
(*   vectorIndex  the chunks in the vector indexes of the store            *)
(*   retrieval    the last retrieval of AskLLM: its request, the index     *)
(*                names it searched, what it got                           *)
(*   nSearchOps   ingestions and retrievals made so far                    *)
(*  language cache:                                                        *)
(*   userLanguage  llm.userLanguage: session -> language, "" when unset    *)
(*   langCall      each concurrent call's position in                      *)
(*                 setupResponseLanguage or DeleteMemory, and its locals   *)
(*   nLangOps      calls started so far                                    *)
(*   lexical       the latest performLexicalSearch: its query, the store   *)
(*                 commands it sent, its keywords and what it returned     *)
(*   textIndexExists  whether the store holds the text index               *)
(*   nLexOps       lexical searches made so far                            *)
(*   hybrid        the latest HybridSearch: its configuration as given and *)
(*                 as used, the searches it ran, what it returned          *)
(***************************************************************************)
VARIABLES redisDocs, rawDocs, nextUUID, nOps, lastOp,
          keyInput, keyOnce, keyTwice, keyPc,
          memoryMap, rawMemory, req, ic, llmOut, caller, llmResult, nAsks,
          pmPc, pmLocal, pmOrder, pmRead,
          vectorIndex, retrieval, nSearchOps,
          userLanguage, langCall, nLangOps,
          lexical, textIndexExists, nLexOps,
          hybrid,
          toolRun,
          memoryStart, clock, lastSweep, evicted, lastGet,
          split

storeVars == <<redisDocs, rawDocs, nextUUID, nOps, lastOp>>
keyVars == <<keyInput, keyOnce, keyTwice, keyPc>>
askVars == <<memoryMap, rawMemory, req, ic, llmOut, caller, llmResult, nAsks>>
pmVars == <<pmPc, pmLocal, pmOrder, pmRead>>
searchVars == <<vectorIndex, retrieval, nSearchOps>>
langVars == <<userLanguage, langCall, nLangOps>>
lexicalVars == <<lexical, textIndexExists, nLexOps>>
hybridVars == <<hybrid>>
toolsVars == <<toolRun>>
sweeperVars == <<memoryStart, clock, lastSweep, evicted, lastGet>>
splitVars == <<split>>
vars == <<storeVars, keyVars, askVars, pmVars, searchVars, langVars, lexicalVars, hybridVars, toolsVars, sweeperVars, splitVars>>

(***************************************************************************)
(* Inputs of the indexer calls.                                            *)
(***************************************************************************)
Prefixes == {<<>>, <<"a">>}
IndexNames == {<<"a">>, <<"a", " ">>}
Languages == {<<>>, <<"a">>}
ContentIds == {"c1", "c2"}
\* what the external collaborators of one EmbeddText call do
EmbedOutcomes == {"ok", "ping", "split", "embedder", "scoped", "global"}

NoOp ==
    [op |-> "none", prefix |-> <<>>, index |-> <<>>, cid |-> "", err |-> FALSE,
     listed |-> {}, gen |-> 0, failed |-> FALSE]

KeySet(keys) == {keys[i] : i \in 1..Len(keys)}

(***************************************************************************)
(* LLMEmbeddingObject.getRawDocRedisId                                     *)
(***************************************************************************)
getRawDocRedisId(EmbeddingPrefix, Index) ==
    <<"rawDocs", ":">>
        \o (IF EmbeddingPrefix # <<>> THEN EmbeddingPrefix \o <<":">> ELSE <<>>)
        \o sanitizeRedisKey(Index)

(***************************************************************************)
(* The index names embedText composes.                                     *)
(***************************************************************************)
ScopedKeyName(prefix, language, index, rawKey) ==
    IF rawKey
    THEN (IF prefix # <<>> THEN prefix \o <<":">> ELSE <<>>) \o index
    ELSE <<"context", ":">>
            \o (IF prefix # <<>> THEN prefix \o <<":">> ELSE <<>>)
            \o index
            \o (IF language # <<>> THEN <<":">> \o language ELSE <<>>)
            \o <<":", "aillm_vector_idx">>

AllKeyName(prefix, language) ==
    <<"all", ":">>
        \o (IF prefix # <<>> THEN prefix \o <<":">> ELSE <<>>)
        \o (IF language # <<>> THEN language \o <<":">> ELSE <<>>)
        \o <<"aillm_vector_idx">>

(***************************************************************************)
(* redisvector Store.AddDocuments: one hash document per chunk under the   *)
(* key doc:<index name>:<fresh uuid>; returns the keys in chunk order.     *)
(***************************************************************************)
DocKey(indexName, uuid) == <<"doc", ":">> \o indexName \o <<":", ToString(uuid)>>

AddDocumentsKeys(indexName, n, firstUUID) ==
    [i \in 1..n |-> DocKey(indexName, firstUUID + i - 1)]

AddDocumentsDocs(indexName, n, firstUUID, scope, prefix, index, cid, gen) ==
    {[key |-> DocKey(indexName, firstUUID + i - 1), indexName |-> indexName,
      scope |-> scope, prefix |-> prefix, index |-> index, cid |-> cid,
      gen |-> gen] : i \in 1..n}

(***************************************************************************)
(* LLMContainer.embedText.  n is the number of chunks the splitter cuts    *)
(* the text into, outcome what the collaborators do.  Every failure after  *)
(* the split returns splitErr, which is nil there.                         *)
(***************************************************************************)
embedText(prefix, language, index, n, GeneralEmbeddingDenied, rawKey, outcome, firstUUID, cid, gen) ==
    LET keyName == ScopedKeyName(prefix, language, index, rawKey)
        allKey == AllKeyName(prefix, language)
        none == [docList |-> <<>>, generalDocList |-> <<>>, docs |-> {},
                 used |-> 0, err |-> FALSE]
    IN  IF outcome = "split" THEN [none EXCEPT !.err = TRUE]
        ELSE IF outcome = "embedder" THEN none
        ELSE IF n = 0 THEN none
        ELSE IF outcome = "scoped" THEN none
        ELSE LET docList == AddDocumentsKeys(keyName, n, firstUUID)
                 scoped == AddDocumentsDocs(keyName, n, firstUUID, "context",
                                            prefix, index, cid, gen)
             IN  IF GeneralEmbeddingDenied \/ rawKey \/ outcome = "global"
                 THEN [docList |-> docList, generalDocList |-> <<>>,
                       docs |-> scoped, used |-> n, err |-> FALSE]
                 ELSE [docList |-> docList,
                       generalDocList |-> AddDocumentsKeys(allKey, n, firstUUID + n),
                       docs |-> scoped \cup
                                AddDocumentsDocs(allKey, n, firstUUID + n, "all",
                                                 prefix, index, cid, gen),
                       used |-> 2 * n, err |-> FALSE]

(***************************************************************************)
(* LLMContainer.deleteRedisWildCard(k, false): the key is rewritten by the *)
(* regular expression and the "__" replacement, then KEYS <pattern> and    *)
(* DEL.  The rewritten pattern holds no glob character, so KEYS matches    *)
(* the one key equal to it.  Returns the documents left.                   *)
(***************************************************************************)
WildCardPattern(k) == ReplaceAllDouble(ReplaceOutsideClass(k))

deleteRedisWildCard(docs, k) == {d \in docs : d.key # WildCardPattern(k)}

RECURSIVE deleteKeys(_, _)
deleteKeys(docs, keys) ==
    IF keys = <<>> THEN docs
    ELSE deleteKeys(deleteRedisWildCard(docs, Head(keys)), Tail(keys))

ListedKeys(obj) ==
    UNION {KeySet(obj.Contents[c].Keys) \cup KeySet(obj.Contents[c].GeneralKeys) :
           c \in DOMAIN obj.Contents}

(***************************************************************************)
(* LLMEmbeddingObject.load: the stored record overwrites the fields of the *)
(* receiver; "key not found" leaves it as constructed.                     *)
(***************************************************************************)
load(prefix, Index) ==
    LET id == getRawDocRedisId(prefix, Index)
    IN  IF id \in DOMAIN rawDocs
        THEN rawDocs[id]
        ELSE [EmbeddingPrefix |-> prefix, Index |-> Index, Contents |-> <<>>]

(***************************************************************************)
(* LLMEmbeddingObject.save (delete the record, then JSON.SET) and          *)
(* LLMEmbeddingObject.delete (JSON.DEL), as updates of rawDocs.            *)
(***************************************************************************)
save(records, obj) ==
    LET id == getRawDocRedisId(obj.EmbeddingPrefix, obj.Index)
    IN  [k \in (DOMAIN records) \cup {id} |-> IF k = id THEN obj ELSE records[k]]

delete(records, id) == [k \in (DOMAIN records) \ {id} |-> records[k]]


(***************************************************************************)
(* Idle values of the variable groups a specification does not use.        *)
(***************************************************************************)
IdleStore ==
    /\ redisDocs = {}
    /\ rawDocs = <<>>
    /\ nextUUID = 1
    /\ nOps = 0
    /\ lastOp = NoOp

IdleKey ==
    /\ keyInput = <<>>
    /\ keyOnce = <<>>
    /\ keyTwice = <<>>
    /\ keyPc = "idle"

(***************************************************************************)
(* Initial values of the orchestrator's variables.  A missing map entry or *)
(* a missing record reads as the zero Memory, as in the code.              *)
(***************************************************************************)
Sessions == {"s1"}

Callers == 1..MaxCallers

NoMemory == [exists |-> FALSE, Questions |-> <<>>]

NoRawMemory == [Questions |-> <<>>, Summary |-> 0]

IdleReq ==
    [pc |-> "idle", sid |-> "", persistent |-> FALSE, ragRefs |-> FALSE,
     tools |-> FALSE, memoryAddAllowed |-> FALSE, prompt |-> "none",
     exists |-> FALSE, memoryData |-> <<>>, unsafe |-> FALSE,
     isSafe |-> TRUE, securityErr |-> FALSE]

NewClosure ==
    [isFirstWord |-> TRUE, isFirstChunk |-> TRUE, refrencesStr |-> <<>>,
     startRefrences |-> FALSE, failedToRespond |-> FALSE, totalTokens |-> 0]

NoCall ==
    [pending |-> <<>>, content |-> <<>>, streamed |-> <<>>, calls |-> 0,
     sent |-> 0, err |-> FALSE]

NewCaller == [received |-> <<>>, failedAt |-> 0, afterFail |-> FALSE]

NoResult ==
    [returned |-> FALSE, err |-> FALSE, hasResponse |-> FALSE, response |-> <<>>,
     failedToRespond |-> FALSE, llmReferences |-> <<>>, outputTokens |-> 0,
     memoryWritten |-> FALSE]

IdleAsk ==
    /\ memoryMap = [s \in Sessions |-> NoMemory]
    /\ rawMemory = [s \in Sessions |-> NoRawMemory]
    /\ req = IdleReq
    /\ ic = NewClosure
    /\ llmOut = NoCall
    /\ caller = NewCaller
    /\ llmResult = NoResult
    /\ nAsks = 0

NoTurn == [Question |-> 0, Answer |-> <<>>]

NoRead ==
    [done |-> FALSE, err |-> FALSE, lastQuestion |-> NoTurn,
     usermemory |-> NoRawMemory, result |-> <<>>, after |-> 0]

IdlePM ==
    /\ pmPc = [c \in Callers |-> "idle"]
    /\ pmLocal = [c \in Callers |-> NoRawMemory]
    /\ pmOrder = <<>>
    /\ pmRead = NoRead

NoRetrieval ==
    [pc |-> "none", prefix |-> <<>>, index |-> <<>>, language |-> <<>>,
     fallback |-> <<>>, searchAll |-> FALSE, force |-> FALSE, alg |-> "none",
     names |-> <<>>, noIndex |-> FALSE, down |-> FALSE, resDocs |-> {},
     err |-> FALSE]

IdleSearch ==
    /\ vectorIndex = {}
    /\ retrieval = NoRetrieval
    /\ nSearchOps = 0

\* "" is the SessionId of a request without a session.
LangSessions == {"", "s1", "s2"}

LangCallers == 1..MaxLangCallers

NoLangCall ==
    [pc |-> "idle", op |-> "none", sid |-> "s1", cachedAtStart |-> "",
     deletedSince |-> FALSE, called |-> FALSE, detected |-> "", used |-> ""]

IdleLang ==
    /\ userLanguage = [s \in LangSessions |-> ""]
    /\ langCall = [c \in LangCallers |-> NoLangCall]
    /\ nLangOps = 0

NoLexical ==
    [pc |-> "none", query |-> <<>>, commands |-> <<>>, keywords |-> <<>>,
     err |-> "", hits |-> FALSE]

IdleLexical ==
    /\ lexical = NoLexical
    /\ textIndexExists = FALSE
    /\ nLexOps = 0

RECURSIVE GCD(_, _)
GCD(a, b) == IF b = 0 THEN a ELSE GCD(b, a % b)

\* Numbers are fractions num/den of naturals in lowest terms; den = 0 is
\* the NaN that the division 0/0 yields (no other division by 0 occurs).
Frac(n, m) ==
    IF m = 0 THEN [num |-> 0, den |-> 0]
    ELSE [num |-> n \div GCD(n, m), den |-> m \div GCD(n, m)]

NoHybrid ==
    [pc |-> "none", given |-> [VectorWeight |-> 0, LexicalWeight |-> 0, UseRRF |-> FALSE],
     VectorWeight |-> Frac(0, 1), LexicalWeight |-> Frac(0, 1), UseRRF |-> FALSE,
     err |-> "", searches |-> <<>>, results |-> <<>>]

IdleHybrid == hybrid = NoHybrid

\* The tools branch of AskLLM before its first GenerateContent.
IdleTools ==
    toolRun = [pc |-> "none", handlers |-> {}, calls |-> <<>>, next |-> 1, msgs |-> <<>>,
               err |-> FALSE, repeated |-> FALSE, memoryWritten |-> FALSE]

NotTools == <<storeVars, keyVars, askVars, pmVars, searchVars, langVars, lexicalVars, hybridVars, sweeperVars, splitVars>>

SweeperSessions == {"s1", "s2"}

\* NewMemoryManager: an empty map, the sweeper's ticker started.  Times are
\* minutes since then; a session of the map is its MemoryStartTime.
IdleSweeper ==
    /\ memoryStart = [s \in SweeperSessions |-> [exists |-> FALSE, MemoryStartTime |-> 0]]
    /\ clock = 0
    /\ lastSweep = 0
    /\ evicted = {}
    /\ lastGet = "none"

NotSweeper == <<storeVars, keyVars, askVars, pmVars, searchVars, langVars, lexicalVars, hybridVars, toolsVars, splitVars>>

\* splitTextIntoFixedSizedChunks not called.
IdleSplit ==
    split = [pc |-> "none", rawText |-> <<>>, chunkSize |-> 1, start |-> 0, prevStart |-> 0,
             iterations |-> 0, chunks |-> <<>>, windows |-> <<>>]

NotSplit == <<storeVars, keyVars, askVars, pmVars, searchVars, langVars, lexicalVars, hybridVars, toolsVars, sweeperVars>>

NotHybrid == <<storeVars, keyVars, askVars, pmVars, searchVars, langVars, lexical, nLexOps, toolsVars, sweeperVars, splitVars>>
NotLexical == <<storeVars, keyVars, askVars, pmVars, searchVars, langVars, hybridVars, toolsVars, sweeperVars, splitVars>>
NotStore == <<keyVars, askVars, pmVars, searchVars, langVars, lexicalVars, hybridVars, toolsVars, sweeperVars, splitVars>>
NotKey == <<storeVars, askVars, pmVars, searchVars, langVars, lexicalVars, hybridVars, toolsVars, sweeperVars, splitVars>>
NotAsk == <<storeVars, keyVars, pmVars, searchVars, langVars, lexicalVars, hybridVars, toolsVars, sweeperVars, splitVars>>
NotSearch == <<storeVars, keyVars, askVars, pmVars, langVars, lexicalVars, hybridVars, toolsVars, sweeperVars, splitVars>>
NotLang == <<storeVars, keyVars, askVars, pmVars, searchVars, lexicalVars, hybridVars, toolsVars, sweeperVars, splitVars>>
NotPM == <<storeVars, keyVars, memoryMap, req, ic, llmOut, caller, llmResult, nAsks, searchVars, langVars, lexicalVars, hybridVars, toolsVars, sweeperVars, splitVars>>

(***************************************************************************)
(* The indexer: EmbeddText, RemoveEmbedding, RemoveEmbeddingSubKey over    *)
(* the store.                                                              *)
(***************************************************************************)
NoContent == [Language |-> <<>>, Chunks |-> 0, Keys |-> <<>>, GeneralKeys |-> <<>>]

ContentOf(obj, id) ==
    IF id \in DOMAIN obj.Contents THEN obj.Contents[id] ELSE NoContent

\* LLMContainer.EmbeddText(Index, Contents, WithEmbeddingPrefix(prefix), ...):
\* Contents.Id = cid, Contents.Language = language, Contents.Text splits into
\* n chunks.
EmbeddText(prefix, Index, cid, language, n, limitGeneral, outcome) ==
    /\ nOps < MaxOps
    /\ LET result == load(prefix, Index)
           gen == nOps + 1
           emb == embedText(prefix, language, Index, n, limitGeneral, FALSE,
                            outcome, nextUUID, cid, gen)
           curContents == ContentOf(result, cid)
           cleaned == deleteKeys(deleteKeys(redisDocs \cup emb.docs, curContents.Keys),
                                 curContents.GeneralKeys)
           newContents == [Language |-> language, Chunks |-> n,
                           Keys |-> emb.docList, GeneralKeys |-> emb.generalDocList]
           saved == [result EXCEPT !.Contents =
                        [c \in (DOMAIN result.Contents) \cup {cid} |->
                            IF c = cid THEN newContents ELSE result.Contents[c]]]
           called == [op |-> "EmbeddText", prefix |-> prefix, index |-> Index,
                      cid |-> cid, err |-> FALSE,
                      listed |-> KeySet(curContents.Keys) \cup KeySet(curContents.GeneralKeys),
                      gen |-> gen,
                      failed |-> \/ outcome = "embedder"
                                 \/ n > 0 /\ outcome = "scoped"
                                 \/ n > 0 /\ outcome = "global" /\ ~limitGeneral]
       IN  IF outcome = "ping" \/ emb.err
           THEN \* Ping failed, or embedText returned an error: nothing written
                /\ lastOp' = [called EXCEPT !.err = TRUE]
                /\ UNCHANGED <<redisDocs, rawDocs, nextUUID>>
           ELSE /\ nextUUID + emb.used <= MaxUUID + 1
                /\ redisDocs' = cleaned
                /\ rawDocs' = save(rawDocs, saved)
                /\ nextUUID' = nextUUID + emb.used
                /\ lastOp' = called
    /\ nOps' = nOps + 1
    /\ UNCHANGED NotStore

\* LLMContainer.RemoveEmbedding(Index, WithEmbeddingPrefix(prefix)); storeErr is
\* the store's answer to the FT.DEL of deleteKey, sent after the JSON.DEL.
RemoveEmbedding(prefix, Index, storeErr) ==
    /\ nOps < MaxOps
    /\ LET llmo == load(prefix, Index)
           keys == ListedKeys(llmo)
       IN  /\ redisDocs' = {d \in redisDocs : \A k \in keys : d.key # WildCardPattern(k)}
           /\ rawDocs' = delete(rawDocs, getRawDocRedisId(llmo.EmbeddingPrefix, llmo.Index))
           /\ lastOp' = [op |-> "RemoveEmbedding", prefix |-> prefix, index |-> Index,
                         cid |-> "", err |-> storeErr, listed |-> keys, gen |-> nOps + 1,
                         failed |-> FALSE]
    /\ nOps' = nOps + 1
    /\ UNCHANGED <<nextUUID, NotStore>>

\* LLMContainer.RemoveEmbeddingSubKey(Index, rawDocID, WithEmbeddingPrefix(prefix))
RemoveEmbeddingSubKey(prefix, Index, rawDocID, storeErr) ==
    /\ nOps < MaxOps
    /\ LET llmo == load(prefix, Index)
           keyToDelete == ContentOf(llmo, rawDocID)
           id == getRawDocRedisId(llmo.EmbeddingPrefix, llmo.Index)
           rest == [llmo EXCEPT !.Contents =
                       [c \in (DOMAIN llmo.Contents) \ {rawDocID} |-> llmo.Contents[c]]]
           empty == DOMAIN rest.Contents = {}
       IN  /\ redisDocs' = deleteKeys(deleteKeys(redisDocs, keyToDelete.Keys),
                                      keyToDelete.GeneralKeys)
           /\ rawDocs' = IF empty THEN delete(rawDocs, id) ELSE save(rawDocs, rest)
           /\ lastOp' = [op |-> "RemoveEmbeddingSubKey", prefix |-> prefix,
                         index |-> Index, cid |-> rawDocID,
                         err |-> (empty /\ storeErr),
                         listed |-> KeySet(keyToDelete.Keys) \cup KeySet(keyToDelete.GeneralKeys),
                         gen |-> nOps + 1, failed |-> FALSE]
    /\ nOps' = nOps + 1
    /\ UNCHANGED <<nextUUID, NotStore>>

InitStore == IdleStore /\ IdleKey /\ IdleAsk /\ IdlePM /\ IdleSearch /\ IdleLang /\ IdleLexical /\ IdleHybrid /\ IdleTools /\ IdleSweeper /\ IdleSplit

NextStore ==
    \/ \E prefix \in Prefixes, Index \in IndexNames, cid \in ContentIds,
          language \in Languages, n \in 0..MaxChunks, limitGeneral \in BOOLEAN,
          outcome \in EmbedOutcomes :
            EmbeddText(prefix, Index, cid, language, n, limitGeneral, outcome)
    \/ \E prefix \in Prefixes, Index \in IndexNames, storeErr \in BOOLEAN :
            RemoveEmbedding(prefix, Index, storeErr)
    \/ \E prefix \in Prefixes, Index \in IndexNames, rawDocID \in ContentIds,
          storeErr \in BOOLEAN :
            RemoveEmbeddingSubKey(prefix, Index, rawDocID, storeErr)

SpecStore == InitStore /\ [][NextStore]_vars


(***************************************************************************)
(* Claims about the indexer (SpecStore).                                   *)
(***************************************************************************)
Live(k) == \E d \in redisDocs : d.key = k

\* C1: after an EmbeddText that returned no error, the only chunks still in
\* the store that were ingested for the same (prefix, index, content id) are
\* those this call wrote, and the content's Keys and GeneralKeys in the stored
\* record are exactly the keys this call wrote.
C1_OnlyLatestChunkSet ==
    (lastOp.op = "EmbeddText" /\ ~lastOp.err) =>
        LET id == getRawDocRedisId(lastOp.prefix, lastOp.index)
            mine == {d \in redisDocs : /\ d.prefix = lastOp.prefix
                                       /\ d.index = lastOp.index
                                       /\ d.cid = lastOp.cid}
        IN  /\ \A d \in mine : d.gen = lastOp.gen
            /\ id \in DOMAIN rawDocs
            /\ lastOp.cid \in DOMAIN rawDocs[id].Contents
            /\ LET c == rawDocs[id].Contents[lastOp.cid]
               IN  KeySet(c.Keys) \cup KeySet(c.GeneralKeys)
                       = {d.key : d \in {e \in mine : e.gen = lastOp.gen}}

\* C2: after a RemoveEmbedding that returned no error, no chunk key that was
\* listed in a content's Keys or GeneralKeys of the object is still in the
\* store, and the object's rawDocs record is gone.
C2_RemoveEmbeddingPurges ==
    (lastOp.op = "RemoveEmbedding" /\ ~lastOp.err) =>
        /\ \A k \in lastOp.listed : ~Live(k)
        /\ getRawDocRedisId(lastOp.prefix, lastOp.index) \notin DOMAIN rawDocs

\* C3: in every stored EmbeddingObject, each content lists as many Keys as
\* its last EmbeddText produced chunks, and every key listed in Keys or
\* GeneralKeys is in the store.
C3_ListedKeysLive ==
    \A id \in DOMAIN rawDocs : \A c \in DOMAIN rawDocs[id].Contents :
        \A k \in KeySet(rawDocs[id].Contents[c].Keys)
                    \cup KeySet(rawDocs[id].Contents[c].GeneralKeys) : Live(k)

\* C25: an EmbeddText in which the embedder could not be created, or the
\* write of its chunks to the scoped or to the general index failed, returned
\* an error, and every chunk key the content's record listed before the call
\* is still in the store.
C25_FailedEmbedLeavesStore ==
    lastOp.op = "EmbeddText" /\ lastOp.failed =>
        lastOp.err /\ \A k \in lastOp.listed : Live(k)

\* An EmbeddText that returned an error deleted no chunk the record listed.
C25_ReturnedErrorLeavesStore ==
    lastOp.op = "EmbeddText" /\ lastOp.err => \A k \in lastOp.listed : Live(k)

C3_KeysMatchChunks ==
    /\ \A id \in DOMAIN rawDocs : \A c \in DOMAIN rawDocs[id].Contents :
           Len(rawDocs[id].Contents[c].Keys) = rawDocs[id].Contents[c].Chunks
    /\ C3_ListedKeysLive


(***************************************************************************)
(* Key sanitization as a function of its input (SpecKey): the input is     *)
(* any string of at most MaxStrLen characters, sanitized once and then     *)
(* once more.                                                              *)
(***************************************************************************)
InitKey ==
    /\ keyInput \in SeqsUpTo(Alphabet, MaxStrLen)
    /\ keyOnce = <<>>
    /\ keyTwice = <<>>
    /\ keyPc = "start"
    /\ IdleStore
    /\ IdleAsk
    /\ IdlePM /\ IdleSearch /\ IdleLang /\ IdleLexical /\ IdleHybrid /\ IdleTools /\ IdleSweeper /\ IdleSplit

SanitizeOnce ==
    /\ keyPc = "start"
    /\ keyOnce' = sanitizeRedisKey(keyInput)
    /\ keyPc' = "once"
    /\ UNCHANGED <<keyInput, keyTwice, NotKey>>

SanitizeTwice ==
    /\ keyPc = "once"
    /\ keyTwice' = sanitizeRedisKey(keyOnce)
    /\ keyPc' = "twice"
    /\ UNCHANGED <<keyInput, keyOnce, NotKey>>

NextKey == SanitizeOnce \/ SanitizeTwice

SpecKey == InitKey /\ [][NextKey]_vars

HasDoubleUnderscore(s) == \E i \in 1..(Len(s) - 1) : s[i] = "_" /\ s[i + 1] = "_"

\* C4: sanitizing a sanitized key changes nothing, and a sanitized key holds
\* no two consecutive underscores and no leading or trailing underscore.
C4_SanitizeIdempotent ==
    /\ keyPc \in {"once", "twice"} =>
          /\ ~HasDoubleUnderscore(keyOnce)
          /\ keyOnce # <<>> => (keyOnce[1] # "_" /\ keyOnce[Len(keyOnce)] # "_")
    /\ keyPc = "twice" => keyTwice = keyOnce

(***************************************************************************)
(* The orchestrator.  Streamed text is a sequence of symbols: "@" the      *)
(* refusal marker (byte 64), " " a space (byte 32), "x" any other answer   *)
(* text, "R" the reference rune, "j" the JSON object                       *)
(* {"references":["a","b"]}.  A chunk is a non-empty run of symbols.       *)
(***************************************************************************)
Texts == {<<"x">>, <<"x", "@">>, <<"@", "x", "@">>, <<"x", "R", " ", "j">>}

RECURSIVE BeforeRune(_)
BeforeRune(s) ==
    IF s = <<>> \/ Head(s) = "R" THEN <<>> ELSE <<Head(s)>> \o BeforeRune(Tail(s))

RECURSIVE SkipSpace(_)
SkipSpace(s) ==
    IF s = <<>> THEN s
    ELSE IF Head(s) = " " THEN SkipSpace(Tail(s))
    ELSE IF s[Len(s)] = " " THEN SkipSpace(SubSeq(s, 1, Len(s) - 1))
    ELSE s

\* json.Unmarshal of refrencesStr into llmReference: the references of a
\* single well-formed object, nothing when the text is not valid JSON.
ParseReferences(refrencesStr) ==
    IF SkipSpace(refrencesStr) = <<"j">> THEN <<"a", "b">> ELSE <<>>

\* The streaming closure AskLLM hands to the LLM client: the captured
\* variables after one chunk, whether the chunk reaches o.StreamingFunc,
\* and the chunk as forwarded.
Interceptor(c, chunk, RagReferences) ==
    LET startsWithAt == chunk[1] = "@"
        firstWord == c.isFirstWord /\ chunk[1] # " "
        out == IF c.isFirstWord /\ firstWord /\ startsWithAt THEN Tail(chunk) ELSE chunk
        c1 == [c EXCEPT !.totalTokens = @ + 1,
                        !.isFirstChunk = FALSE,
                        !.failedToRespond = @ \/ (c.isFirstWord /\ startsWithAt),
                        !.isFirstWord = firstWord]
    IN  IF RagReferences /\ c.startRefrences
        THEN [ic |-> [c1 EXCEPT !.refrencesStr = @ \o out], forward |-> FALSE, chunk |-> out]
        ELSE IF out = <<"R">>
        THEN [ic |-> [c1 EXCEPT !.startRefrences = TRUE], forward |-> FALSE, chunk |-> out]
        ELSE [ic |-> c1, forward |-> TRUE, chunk |-> out]

\* MemoryManager.GetMemory and MemoryManager.AddMemory (ephemeral).
GetMemory(map, sessionID) == map[sessionID]

AddMemory(map, sessionID, questions) ==
    [map EXCEPT ![sessionID] = [exists |-> TRUE, Questions |-> questions]]

\* PMAppend with the summary refreshed from three turns on only.
PMAppendFromThree(curUserMemory, query) ==
    LET qs == Append(curUserMemory.Questions, query)
    IN  [Questions |-> qs,
         Summary |-> IF Len(qs) >= 3 THEN Len(qs) ELSE curUserMemory.Summary]

\* PersistentMemory.AddMemory after its embedding step: the record read,
\* the turn appended, the summary refreshed from two turns on.  The summary
\* is the content of the summarizing LLM call, a non-empty text named here
\* by the number of turns it covers; 0 is the empty summary.
PMAppend(curUserMemory, query) ==
    LET qs == Append(curUserMemory.Questions, query)
    IN  [Questions |-> qs,
         Summary |-> IF Len(qs) >= 2 THEN Len(qs) ELSE curUserMemory.Summary]

\* The memory prompt PersistentMemory.GetMemory builds is empty exactly for
\* a record with no summary and no question.
PMMemoryStrEmpty(curUserMemory) ==
    curUserMemory.Summary = 0 /\ curUserMemory.Questions = <<>>

\* Which system message AskLLM composes; "error" is the early return.
PromptKind(hasRag, llmAllow, oAllow, noRagMsg, memoryStrEmpty) ==
    IF hasRag THEN "rag"
    ELSE IF ~llmAllow /\ ~oAllow
    THEN IF noRagMsg THEN "refusal" ELSE "error"
    ELSE IF memoryStrEmpty THEN "bare" ELSE "memory"

ErrResult == [NoResult EXCEPT !.returned = TRUE, !.err = TRUE]

\* What the security classifier can answer for a query: content that starts
\* with "1" (safe), content that does not, or an error of the call.
SafeAnswer == [err |-> FALSE, content |-> <<"1">>]

SecurityAnswers ==
    {SafeAnswer, [err |-> FALSE, content |-> <<"0", "x">>], [err |-> TRUE, content |-> <<>>]}

\* IsQuerySafe: an error of the classifier call reads as safe; otherwise the
\* query is safe exactly when the answer starts with "1".
IsQuerySafe(answer) ==
    IF answer.err THEN TRUE
    ELSE Len(answer.content) >= 1 /\ answer.content[1] = "1"

\* AskLLM up to the first LLM call: options applied, session memory read,
\* retrieval done (hasRag is its outcome), system message chosen.
\* ignoreSecurityCheck is the option WithIgnoreSecurityCheck sets and
\* securityAnswer is what the classifier answers for this query: AskLLM
\* reads neither: req.unsafe, req.isSafe (what IsQuerySafe returns for the
\* query) and req.securityErr (whether the classifier call failed) only
\* record them.
AskStart(sid, persistent, ragRefs, tools, hasRag, llmAllow, oAllow, noRagMsg, ignoreSecurityCheck, securityAnswer) ==
    /\ req.pc \in {"idle", "done"}
    /\ nAsks < MaxAsks
    /\ LET mem == IF sid # "" /\ ~persistent THEN GetMemory(memoryMap, sid) ELSE NoMemory
           usermemory == IF sid # "" /\ persistent THEN rawMemory[sid] ELSE NoRawMemory
           kind == PromptKind(hasRag, llmAllow, oAllow, noRagMsg, PMMemoryStrEmpty(usermemory))
       IN  /\ req' = [pc |-> IF kind = "error" THEN "done"
                             ELSE IF tools THEN "tools" ELSE "generate",
                      sid |-> sid, persistent |-> persistent, ragRefs |-> ragRefs,
                      tools |-> tools,
                      memoryAddAllowed |-> (kind # "error" /\ (hasRag \/ llmAllow)),
                      prompt |-> kind, exists |-> mem.exists,
                      memoryData |-> mem.Questions,
                      unsafe |-> (~ignoreSecurityCheck /\ ~IsQuerySafe(securityAnswer)),
                      isSafe |-> IsQuerySafe(securityAnswer),
                      securityErr |-> securityAnswer.err]
           /\ llmResult' = IF kind = "error" THEN ErrResult ELSE NoResult
    /\ nAsks' = nAsks + 1
    /\ ic' = NewClosure
    /\ llmOut' = NoCall
    /\ caller' = NewCaller
    /\ UNCHANGED <<memoryMap, rawMemory>>
    /\ UNCHANGED NotAsk

\* The tool-selection call and the handlers of the tools it names.
ToolCall(outcome) ==
    /\ req.pc = "tools"
    /\ IF outcome = "ok"
       THEN /\ req' = [req EXCEPT !.pc = "generate"]
            /\ UNCHANGED llmResult
       ELSE /\ req' = [req EXCEPT !.pc = "done"]
            /\ llmResult' = ErrResult
    /\ UNCHANGED <<memoryMap, rawMemory, ic, llmOut, caller, nAsks>>
    /\ UNCHANGED NotAsk

\* llmclient.GenerateContent(ctx, msgs, calloptions...) is entered: the LLM
\* settles on the text it will stream.
BeginGeneration(text) ==
    /\ req.pc = "generate"
    /\ llmOut' = [llmOut EXCEPT !.pending = text, !.content = <<>>,
                                !.calls = @ + 1, !.err = FALSE,
                                !.sent = IF req.tools THEN @ ELSE @ + 1]
    /\ req' = [req EXCEPT !.pc = "stream"]
    /\ UNCHANGED <<memoryMap, rawMemory, ic, caller, llmResult, nAsks>>
    /\ UNCHANGED NotAsk

\* The LLM client delivers the next k symbols as one chunk; the closure
\* runs; the caller's function, when reached, answers nil or an error, and
\* an error ends the call.  Where the call ends, AskLLM goes on: without
\* tools the first call's outcome is overwritten by a second call.
StreamChunk(k, cbErr) ==
    /\ req.pc = "stream"
    /\ k \in 1..Len(llmOut.pending)
    /\ LET chunk == SubSeq(llmOut.pending, 1, k)
           rest == SubSeq(llmOut.pending, k + 1, Len(llmOut.pending))
           r == Interceptor(ic, chunk, req.ragRefs)
           fails == r.forward /\ cbErr
           ended == fails \/ rest = <<>>
           again == ~req.tools /\ llmOut.calls = 1
       IN  /\ ic' = r.ic
           /\ caller' = IF r.forward
                        THEN [received |-> caller.received \o r.chunk,
                              failedAt |-> IF caller.failedAt = 0 /\ fails
                                           THEN llmOut.calls ELSE caller.failedAt,
                              afterFail |-> caller.afterFail \/ caller.failedAt # 0]
                        ELSE caller
           /\ llmOut' = [llmOut EXCEPT !.pending = IF fails THEN <<>> ELSE rest,
                                       !.content = @ \o chunk,
                                       !.streamed = @ \o chunk,
                                       !.err = fails]
           /\ req' = [req EXCEPT !.pc = IF ~ended THEN "stream"
                                        ELSE IF again THEN "generate"
                                        ELSE IF fails THEN "done" ELSE "finish"]
           /\ llmResult' = IF ended /\ ~again /\ fails THEN ErrResult ELSE llmResult
    /\ UNCHANGED <<memoryMap, rawMemory, nAsks>>
    /\ UNCHANGED NotAsk

\* AskLLM after the last LLM call returned no error: the memory write and
\* the assembly of the result.
Finish(embedErr) ==
    /\ req.pc = "finish"
    /\ LET allowed == req.memoryAddAllowed /\ req.sid # ""
           choiceContent == IF req.ragRefs THEN BeforeRune(llmOut.content) ELSE llmOut.content
           queryData == [Question |-> nAsks, Answer |-> choiceContent]
           memoryData == IF req.exists THEN Append(req.memoryData, queryData) ELSE req.memoryData
           done == [returned |-> TRUE, err |-> FALSE, hasResponse |-> TRUE,
                    response |-> llmOut.content,
                    failedToRespond |-> ic.failedToRespond,
                    llmReferences |-> IF req.ragRefs THEN ParseReferences(ic.refrencesStr) ELSE <<>>,
                    outputTokens |-> ic.totalTokens,
                    memoryWritten |-> allowed]
       IN  IF ~allowed
           THEN /\ embedErr = FALSE
                /\ llmResult' = done
                /\ UNCHANGED <<memoryMap, rawMemory>>
           ELSE IF ~req.persistent
           THEN /\ embedErr = FALSE
                /\ memoryMap' = AddMemory(memoryMap, req.sid, memoryData)
                /\ llmResult' = done
                /\ UNCHANGED rawMemory
           ELSE IF embedErr
           THEN /\ llmResult' = ErrResult
                /\ UNCHANGED <<memoryMap, rawMemory>>
           ELSE /\ rawMemory' = [rawMemory EXCEPT ![req.sid] = PMAppend(@, queryData)]
                /\ llmResult' = done
                /\ UNCHANGED memoryMap
    /\ req' = [req EXCEPT !.pc = "done"]
    /\ UNCHANGED <<ic, llmOut, caller, nAsks>>
    /\ UNCHANGED NotAsk

InitAsk == IdleStore /\ IdleKey /\ IdleAsk /\ IdlePM /\ IdleSearch /\ IdleLang /\ IdleLexical /\ IdleHybrid /\ IdleTools /\ IdleSweeper /\ IdleSplit

NextAsk ==
    \/ \E sid \in {""} \cup Sessions, persistent, ragRefs, tools \in BOOLEAN :
         \E hasRag, llmAllow, oAllow, noRagMsg \in BOOLEAN :
            AskStart(sid, persistent, ragRefs, tools, hasRag, llmAllow, oAllow, noRagMsg, FALSE, SafeAnswer)
    \/ \E outcome \in {"ok", "llm", "handler"} : ToolCall(outcome)
    \/ \E text \in Texts : BeginGeneration(text)
    \/ \E k \in 1..MaxStrLen, cbErr \in BOOLEAN : StreamChunk(k, cbErr)
    \/ \E embedErr \in BOOLEAN : Finish(embedErr)

SpecAsk == InitAsk /\ [][NextAsk]_vars

\* The same orchestrator over every answer of the security classifier, for
\* requests with retrieved context.
InitSafety == IdleStore /\ IdleKey /\ IdleAsk /\ IdlePM /\ IdleSearch /\ IdleLang /\ IdleLexical /\ IdleHybrid /\ IdleTools /\ IdleSweeper /\ IdleSplit

NextSafety ==
    \/ \E sid \in {""} \cup Sessions, persistent, tools, ignoreSecurityCheck \in BOOLEAN :
         \E securityAnswer \in SecurityAnswers :
            AskStart(sid, persistent, FALSE, tools, TRUE, TRUE, FALSE, FALSE, ignoreSecurityCheck, securityAnswer)
    \/ \E outcome \in {"ok", "llm", "handler"} : ToolCall(outcome)
    \/ \E text \in Texts : BeginGeneration(text)
    \/ \E k \in 1..MaxStrLen, cbErr \in BOOLEAN : StreamChunk(k, cbErr)
    \/ \E embedErr \in BOOLEAN : Finish(embedErr)

SpecSafety == InitSafety /\ [][NextSafety]_vars

\* An AskLLM that returned a result and no error.
Answered == req.pc = "done" /\ llmResult.returned /\ ~llmResult.err

\* The turns of this AskLLM that a list of questions holds.
TurnsOfThisAsk(questions) ==
    {i \in 1..Len(questions) : questions[i].Question = nAsks}

\* C6: with ephemeral memory, an AskLLM that obtained a non-refusal response
\* with memory allowed leaves its turn as the last of the session's question
\* list, also when the session did not exist before.
C6_EphemeralTurnAppended ==
    Answered /\ llmResult.memoryWritten /\ ~req.persistent /\ ~llmResult.failedToRespond =>
        LET qs == memoryMap[req.sid].Questions
        IN  qs # <<>> /\ qs[Len(qs)].Question = nAsks

\* The turn is appended whenever the session existed before the call.
C6_ExistingSessionAppended ==
    Answered /\ llmResult.memoryWritten /\ ~req.persistent /\ req.exists =>
        LET qs == memoryMap[req.sid].Questions
        IN  qs = Append(req.memoryData, qs[Len(qs)]) /\ qs[Len(qs)].Question = nAsks

\* C7: an AskLLM whose result is marked failedToRespond leaves no turn of its
\* own in the session memory, ephemeral or persistent.
C7_RefusalNotRemembered ==
    Answered /\ llmResult.failedToRespond =>
        \A s \in Sessions :
            /\ TurnsOfThisAsk(memoryMap[s].Questions) = {}
            /\ TurnsOfThisAsk(rawMemory[s].Questions) = {}

\* C8: when the one token stream of an AskLLM began with '@' (and held no
\* reference rune, and the caller's function never failed), the caller
\* received the stream without that '@', every other symbol unchanged and in
\* order, and the result has FailedToRespond = true.
C8_LeadingAtStripped ==
    /\ Answered
    /\ llmOut.calls = 1
    /\ llmOut.streamed # <<>> /\ llmOut.streamed[1] = "@"
    /\ \A i \in 1..Len(llmOut.streamed) : llmOut.streamed[i] # "R"
    => /\ caller.received = Tail(llmOut.streamed)
       /\ llmResult.failedToRespond

\* The result is marked whenever the stream began with '@'.
C8_LeadingAtMarked ==
    Answered /\ llmOut.streamed # <<>> /\ llmOut.streamed[1] = "@" =>
        llmResult.failedToRespond

\* C9: with RagReferences set, when the one token stream of an AskLLM was
\* text, the reference rune, a space and the JSON object, however it was
\* cut into chunks the caller received only the text before the rune, and
\* the result's LLMReferences are ["a","b"].
C9_ReferencesDiverted ==
    /\ Answered
    /\ req.ragRefs
    /\ llmOut.calls = 1
    /\ llmOut.streamed = <<"x", "R", " ", "j">>
    => /\ caller.received = BeforeRune(llmOut.streamed)
       /\ llmResult.llmReferences = <<"a", "b">>

\* With the rune in a chunk of its own the references are diverted.
C9_RuneAloneDiverted ==
    Answered /\ req.ragRefs /\ llmOut.calls = 1 /\ ic.startRefrences
              /\ llmOut.streamed = <<"x", "R", " ", "j">> =>
        /\ caller.received = <<"x">>
        /\ llmResult.llmReferences = <<"a", "b">>

\* C10: once the caller's streaming function has returned an error, no
\* further generation call is made and no further chunk is delivered, and
\* AskLLM returns an error with a result that carries the response so far.
C10_CallbackErrorAborts ==
    caller.failedAt # 0 =>
        /\ llmOut.calls = caller.failedAt
        /\ ~caller.afterFail
        /\ req.pc = "done" => llmResult.err /\ llmResult.hasResponse

\* With tools, the error of the caller's function ends the only call and is
\* returned.
C10_ToolsPathReturnsError ==
    caller.failedAt # 0 /\ req.tools =>
        /\ llmOut.calls = 1 /\ ~caller.afterFail
        /\ req.pc = "done" /\ llmResult.err

\* C15: an AskLLM whose query the security classifier rates unsafe (the check
\* not being switched off) makes no further LLM call and writes no memory.
C15_UnsafeShortCircuits ==
    req.unsafe =>
        /\ llmOut.calls = 0
        /\ ~llmResult.memoryWritten

\* C21: the system message AskLLM composes is the refusal template when
\* there is no context and hallucination is not allowed, the memory template
\* when there is no context and hallucination is allowed (also for a session
\* without memory), the chunk template otherwise: it is never missing, and
\* AskLLM never returns before the LLM call for want of one.  (PromptKind
\* gives "error" and "bare" only for requests without context.)
C21_PromptFromContextAndHallucination ==
    req.pc # "idle" => req.prompt \in {"refusal", "memory", "rag"}

\* C27: IsQuerySafe reports no query as safe when the classifier call
\* failed.
C27_NotSafeOnError ==
    req.pc # "idle" /\ req.securityErr => ~req.isSafe

\* C22: when the one token stream of an AskLLM held no reference rune and
\* the caller's function never failed, the result has FailedToRespond = true
\* exactly if the first symbol of the stream that is not a space is '@', and
\* the caller received the stream with that '@' removed and nothing else
\* changed, however the stream was cut into chunks.
C22_AtOnlyFirstNonSpace ==
    /\ Answered
    /\ llmOut.calls = 1
    /\ caller.failedAt = 0
    /\ \A i \in 1..Len(llmOut.streamed) : llmOut.streamed[i] # "R"
    => LET s == llmOut.streamed
           nonSpace == {i \in 1..Len(s) : s[i] # " "}
           k == IF nonSpace = {} THEN 0 ELSE CHOOSE i \in nonSpace : \A j \in nonSpace : i <= j
           at == k # 0 /\ s[k] = "@"
       IN  /\ llmResult.failedToRespond <=> at
           /\ caller.received = IF at THEN SubSeq(s, 1, k - 1) \o SubSeq(s, k + 1, Len(s)) ELSE s

\* C26: an AskLLM without tools that returned a result made one generation
\* call, reported "Sending Request to LLM" once, and the caller received the
\* response once.
C26_GeneratedOnce ==
    Answered /\ ~req.tools /\ llmResult.hasResponse =>
        /\ llmOut.calls = 1
        /\ llmOut.sent = 1
        /\ Len(llmOut.streamed) = Len(llmOut.content)

(***************************************************************************)
(* Concurrent AskLLM calls with persistent memory on one session.  Each    *)
(* call has its response and runs PersistentMemory.AddMemory; the calls    *)
(* interleave at its blocking operations: the embedding, the GET of the    *)
(* record, the summarizing LLM call, the SET of the record.                *)
(***************************************************************************)
PMSession == "s1"

\* The turn of caller c: the first answer begins with '@', the third is the
\* empty content of its response's first choice.
PMTurn(c) == [Question |-> c, Answer |-> IF c = 1 THEN <<"@", "x">> ELSE IF c = 2 THEN <<"x">> ELSE <<>>]

\* embedText of the turn, then Expire on its keys.
PMEmbed(c, embedErr) ==
    /\ pmPc[c] = "idle"
    /\ pmPc' = [pmPc EXCEPT ![c] = IF embedErr THEN "failed" ELSE "embedded"]
    /\ UNCHANGED <<pmLocal, pmOrder, pmRead, rawMemory>>
    /\ UNCHANGED NotPM

\* redisClient.Get of the record into curUserMemory, the turn appended and,
\* from two turns on, the loop that builds PrevConversation: it reads
\* question.Answer[0] of every turn, an index out of range on an empty answer.
PMGet(c) ==
    /\ pmPc[c] = "embedded"
    /\ pmLocal' = [pmLocal EXCEPT ![c] = rawMemory[PMSession]]
    /\ LET qs == Append(rawMemory[PMSession].Questions, PMTurn(c))
       IN  pmPc' = [pmPc EXCEPT ![c] =
                      IF Len(qs) >= 2
                      THEN IF \E i \in 1..Len(qs) : qs[i].Answer = <<>>
                           THEN "panicked" ELSE "summarize"
                      ELSE "set"]
    /\ UNCHANGED <<pmOrder, pmRead, rawMemory>>
    /\ UNCHANGED NotPM

\* The nested AskLLM that summarizes the conversation, and the read of
\* resp.Response.Choices[0].Content: an index out of range when the response
\* has no choices.
PMSummarize(c, askErr, choices) ==
    /\ pmPc[c] = "summarize"
    /\ pmPc' = [pmPc EXCEPT ![c] = IF askErr THEN "failed"
                                   ELSE IF choices = 0 THEN "panicked" ELSE "set"]
    /\ UNCHANGED <<pmLocal, pmOrder, pmRead, rawMemory>>
    /\ UNCHANGED NotPM

\* redisClient.Set of curUserMemory with the turn appended.
PMSet(c) ==
    /\ pmPc[c] = "set"
    /\ rawMemory' = [rawMemory EXCEPT ![PMSession] = PMAppend(pmLocal[c], PMTurn(c))]
    /\ pmOrder' = Append(pmOrder, c)
    /\ pmPc' = [pmPc EXCEPT ![c] = "done"]
    /\ UNCHANGED <<pmLocal, pmRead>>
    /\ UNCHANGED NotPM

\* The memory prompt of PersistentMemory.GetMemory, piece by piece: the
\* summary line, the history documents the vector search returned, the last
\* turn as "User: <question>\nAssistant:<answer>\n".
PMContext(curUserMemory, history) ==
    LET qs == curUserMemory.Questions
    IN  (IF curUserMemory.Summary # 0
         THEN <<[kind |-> "summary", summary |-> curUserMemory.Summary]>> ELSE <<>>)
        \o (IF Len(qs) > 1 /\ history
            THEN [i \in 1..Len(qs) |-> [kind |-> "doc", turn |-> qs[i]]] ELSE <<>>)
        \o (IF Len(qs) > 0
            THEN <<[kind |-> "turn", turn |-> qs[Len(qs)]]>> ELSE <<>>)

\* PersistentMemory.GetMemory(sessionID, query): ping, GET of the record
\* (an error when there is none), last question, memory prompt.
PMGetMemory(pingErr, history) ==
    /\ LET curUserMemory == rawMemory[PMSession]
           qs == curUserMemory.Questions
       IN  pmRead' =
             IF pingErr \/ curUserMemory = NoRawMemory
             THEN [NoRead EXCEPT !.done = TRUE, !.err = TRUE]
             ELSE [done |-> TRUE, err |-> FALSE,
                   lastQuestion |-> IF Len(qs) > 0 THEN qs[Len(qs)] ELSE NoTurn,
                   usermemory |-> curUserMemory,
                   result |-> PMContext(curUserMemory, history),
                   after |-> IF pmOrder = <<>> THEN 0 ELSE pmOrder[Len(pmOrder)]]
    /\ UNCHANGED <<pmPc, pmLocal, pmOrder, rawMemory>>
    /\ UNCHANGED NotPM

InitPM == IdleStore /\ IdleKey /\ IdleAsk /\ IdlePM /\ IdleSearch /\ IdleLang /\ IdleLexical /\ IdleHybrid /\ IdleTools /\ IdleSweeper /\ IdleSplit

NextPM ==
    \/ \E c \in Callers, embedErr \in BOOLEAN : PMEmbed(c, embedErr)
    \/ \E c \in Callers : PMGet(c)
    \/ \E c \in Callers, askErr \in BOOLEAN, choices \in 0..1 : PMSummarize(c, askErr, choices)
    \/ \E c \in Callers : PMSet(c)
    \/ \E pingErr, history \in BOOLEAN : PMGetMemory(pingErr, history)

SpecPM == InitPM /\ [][NextPM]_vars

\* C5: once concurrent calls on one session have all returned, the record
\* holds one turn for every call that returned no error, none lost or
\* overwritten, in the order the calls wrote.
C5_TurnsSerialized ==
    (\A c \in Callers : pmPc[c] \in {"done", "failed"}) =>
        [i \in 1..Len(rawMemory[PMSession].Questions) |->
            rawMemory[PMSession].Questions[i].Question] = pmOrder

\* Calls that do not overlap inside AddMemory lose nothing.
C5_WrittenTurnIsLast ==
    \A c \in Callers : pmPc[c] = "done" /\ pmOrder # <<>> /\ pmOrder[Len(pmOrder)] = c =>
        LET qs == rawMemory[PMSession].Questions
        IN  qs # <<>> /\ qs[Len(qs)] = PMTurn(c)

C29_AddMemoryNeverPanics == \A c \in Callers : pmPc[c] # "panicked"

(***************************************************************************)
(* Retrieval scopes: the index names the indexer writes to and the index   *)
(* names AskLLM searches.                                                  *)
(***************************************************************************)
ScopePrefixes == {<<>>, <<"a">>}

ScopeIndexes == {<<"a">>}

ScopeLanguages == {<<>>, <<"a">>, <<"b">>}

SearchAlgorithms == {"SimilaritySearch", "KNearestNeighbors", "HybridSearch"}

\* The chunk embedText adds to the index named name.
Chunk(name, prefix, index, language) ==
    [indexName |-> name, prefix |-> prefix, index |-> index, language |-> language]

\* o.searchAll and o.Language as AskLLM settles them before the search.
SearchAllOf(index, searchAll) == searchAll \/ index = <<>>

LanguageOf(index, language, FallbackLanguage, searchAll) ==
    IF ~SearchAllOf(index, searchAll) /\ language = <<>> /\ FallbackLanguage # <<>>
    THEN FallbackLanguage ELSE language

KNNPrefix(prefix, index, language, FallbackLanguage, searchAll, ForceLanguage) ==
    LET lang == LanguageOf(index, language, FallbackLanguage, searchAll)
        pre == IF prefix # <<>> THEN prefix \o <<":">> ELSE <<>>
        base == IF SearchAllOf(index, searchAll)
                THEN <<"all", ":">> \o pre
                ELSE <<"context", ":">> \o pre \o index \o <<":">>
    IN  base \o (IF lang # <<>> /\ ~ForceLanguage THEN lang \o <<":">> ELSE <<>>)

\* The prefix of the second retrieval.
FallbackSearchPrefix(prefix, index, FallbackLanguage, searchAll) ==
    IF SearchAllOf(index, searchAll)
    THEN <<"all", ":">> \o prefix \o <<":">> \o FallbackLanguage \o <<":">>
    ELSE prefix \o <<":">> \o FallbackLanguage \o <<":">>

SearchIndexName(prefix) == prefix \o <<"aillm_vector_idx">>

\* The store's answer to a vector search in the index named name: the
\* error "no such index" when nothing was ever added under the name, an
\* other error when the store is down, else the chunks above the threshold.
SimilaritySearch(chunks, name, storeDown, relevant) ==
    IF storeDown THEN [docs |-> {}, err |-> "other"]
    ELSE IF \A c \in chunks : c.indexName # name THEN [docs |-> {}, err |-> "no such index"]
    ELSE [docs |-> IF relevant THEN {c \in chunks : c.indexName = name} ELSE {},
          err |-> "none"]

CosineSimilarity(chunks, prefix, storeDown, relevant) ==
    LET r == SimilaritySearch(chunks, SearchIndexName(prefix), storeDown, relevant)
    IN  IF r.err # "none" /\ r.err # "no such index"
        THEN [docs |-> {}, err |-> TRUE, store |-> r.err]
        ELSE [docs |-> r.docs, err |-> FALSE, store |-> r.err]

FindKNN(chunks, prefix, storeDown, relevant) ==
    LET r == SimilaritySearch(chunks, SearchIndexName(prefix), storeDown, relevant)
    IN  IF r.err # "none"
        THEN [docs |-> {}, err |-> TRUE, store |-> r.err]
        ELSE [docs |-> r.docs, err |-> FALSE, store |-> r.err]

\* The switch on llm.SearchAlgorithm.
SearchBy(alg, chunks, prefix, storeDown, relevant) ==
    IF alg = "SimilaritySearch" THEN CosineSimilarity(chunks, prefix, storeDown, relevant)
    ELSE FindKNN(chunks, prefix, storeDown, relevant)

\* EmbeddText seen from the vector indexes: embedText adds the chunk to the
\* scoped index and, unless denied, to the general index.
Ingest(prefix, index, language, LimitGeneralEmbedding) ==
    /\ nSearchOps < MaxSearchOps
    /\ vectorIndex' = vectorIndex
            \cup {Chunk(ScopedKeyName(prefix, language, index, FALSE), prefix, index, language)}
            \cup (IF LimitGeneralEmbedding THEN {}
                  ELSE {Chunk(AllKeyName(prefix, language), prefix, index, language)})
    /\ nSearchOps' = nSearchOps + 1
    /\ UNCHANGED retrieval
    /\ UNCHANGED NotSearch

\* The retrieval of AskLLM: the prefix is composed, the index is searched
\* with llm.SearchAlgorithm, and an empty result is retried under the
\* fallback language.  A search error ends AskLLM unless hallucination is
\* allowed.
Retrieve(prefix, index, language, FallbackLanguage, searchAll, ForceLanguage, alg, allow, storeDown, relevant) ==
    /\ nSearchOps < MaxSearchOps
    /\ retrieval.pc = "none"
    /\ LET all == SearchAllOf(index, searchAll)
           lang == LanguageOf(index, language, FallbackLanguage, searchAll)
           first == KNNPrefix(prefix, index, language, FallbackLanguage, searchAll, ForceLanguage)
           second == FallbackSearchPrefix(prefix, index, FallbackLanguage, searchAll)
           r1 == SearchBy(alg, vectorIndex, first, storeDown, relevant)
           r2 == SearchBy(alg, vectorIndex, second, storeDown, relevant)
           retry == r1.docs = {} /\ FallbackLanguage # <<>> /\ FallbackLanguage # lang
           base == [NoRetrieval EXCEPT !.pc = "done", !.prefix = prefix, !.index = index,
                                       !.language = lang, !.fallback = FallbackLanguage,
                                       !.searchAll = all, !.force = ForceLanguage,
                                       !.alg = alg]
       IN  retrieval' =
             IF alg \notin {"SimilaritySearch", "KNearestNeighbors"}
             THEN [base EXCEPT !.err = TRUE]
             ELSE IF r1.err /\ ~allow
             THEN [base EXCEPT !.names = <<SearchIndexName(first)>>,
                               !.noIndex = r1.store = "no such index",
                               !.down = r1.store = "other", !.err = TRUE]
             ELSE IF ~retry
             THEN [base EXCEPT !.names = <<SearchIndexName(first)>>,
                               !.noIndex = r1.store = "no such index",
                               !.down = r1.store = "other", !.resDocs = r1.docs]
             ELSE [base EXCEPT !.names = <<SearchIndexName(first), SearchIndexName(second)>>,
                               !.noIndex = "no such index" \in {r1.store, r2.store},
                               !.down = "other" \in {r1.store, r2.store},
                               !.resDocs = r2.docs,
                               !.err = r2.err /\ ~allow]
    /\ nSearchOps' = nSearchOps + 1
    /\ UNCHANGED vectorIndex
    /\ UNCHANGED NotSearch

InitSearch == IdleStore /\ IdleKey /\ IdleAsk /\ IdlePM /\ IdleSearch /\ IdleLang /\ IdleLexical /\ IdleHybrid /\ IdleTools /\ IdleSweeper /\ IdleSplit

NextSearch ==
    \/ \E prefix \in ScopePrefixes, index \in ScopeIndexes, language \in ScopeLanguages :
         \E LimitGeneralEmbedding \in BOOLEAN :
            Ingest(prefix, index, language, LimitGeneralEmbedding)
    \/ \E prefix \in ScopePrefixes, index \in ScopeIndexes \cup {<<>>} :
         \E language, FallbackLanguage \in ScopeLanguages, alg \in SearchAlgorithms :
            \E searchAll, ForceLanguage, allow, storeDown, relevant \in BOOLEAN :
               Retrieve(prefix, index, language, FallbackLanguage, searchAll,
                        ForceLanguage, alg, allow, storeDown, relevant)

SpecSearch == InitSearch /\ [][NextSearch]_vars

\* C11: a retrieval scoped to a prefix, an index and a language searches no
\* vector index that holds a chunk ingested under another prefix.
C11_ScopesDisjoint ==
    retrieval.pc = "done" /\ ~retrieval.searchAll /\ ~retrieval.force =>
        \A i \in 1..Len(retrieval.names) :
            \A c \in vectorIndex :
                c.indexName = retrieval.names[i] => c.prefix = retrieval.prefix

\* Scoped indexes of ingestions with a prefix and a language keep the
\* prefixes apart.
C11_FullScopesDistinct ==
    \A c, e \in vectorIndex :
        /\ c.indexName = e.indexName
        /\ c.prefix # <<>> /\ e.prefix # <<>> /\ c.language # <<>> /\ e.language # <<>>
        => c.prefix = e.prefix /\ c.index = e.index /\ c.language = e.language

\* C19: a retrieval in which the store answered "no such index" (and was
\* not down) ends without error.
C19_NoSuchIndexIsEmpty ==
    retrieval.pc = "done" /\ retrieval.noIndex /\ ~retrieval.down => ~retrieval.err

\* With cosine similarity the missing index is an empty result.
C19_CosineNoSuchIndexIsEmpty ==
    /\ retrieval.pc = "done" /\ retrieval.alg = "SimilaritySearch"
    /\ retrieval.noIndex /\ ~retrieval.down /\ Len(retrieval.names) = 1
    => ~retrieval.err /\ retrieval.resDocs = {}

\* C20: the second retrieval, made when the first found nothing and the
\* fallback language differs from the request's, searches the index the
\* indexer writes for the same prefix (and index, unless searching all)
\* under the fallback language.
C20_FallbackIndexName ==
    retrieval.pc = "done" /\ Len(retrieval.names) = 2 =>
        retrieval.names[2] =
            IF retrieval.searchAll
            THEN AllKeyName(retrieval.prefix, retrieval.fallback)
            ELSE ScopedKeyName(retrieval.prefix, retrieval.fallback, retrieval.index, FALSE)

\* Searching all under a non-empty prefix, the second retrieval goes to the
\* general index of the fallback language.
C20_FallbackAllIndexName ==
    /\ retrieval.pc = "done" /\ Len(retrieval.names) = 2
    /\ retrieval.searchAll /\ retrieval.prefix # <<>>
    => retrieval.names[2] = AllKeyName(retrieval.prefix, retrieval.fallback)

(***************************************************************************)
(* The language cache.  Concurrent AskLLM calls run setupResponseLanguage  *)
(* and PersistentMemory.DeleteMemory clears a session's entry; every step  *)
(* below is one access to the map llm.userLanguage or the detection call.  *)
(* Calls of different sessions overlap freely; the calls of one session    *)
(* come one after the other (a single writer per session).                 *)
(***************************************************************************)
\* No call of the session is under way.
SessionFree(sid) ==
    \A d \in LangCallers : langCall[d].pc \in {"idle", "done"} \/ langCall[d].sid # sid

\* What the detection LLM may answer; "error" is a failed call.
DetectionAnswers == {"error", "NONE", "", "French"}

\* GetQueryLanguage: the answer of the LLM, "none" in any case read as
\* English.
GetQueryLanguage(answer) == IF answer = "NONE" THEN "English" ELSE answer

\* An AskLLM enters setupResponseLanguage for the session.
LangStart(c, sid) ==
    /\ langCall[c].pc \in {"idle", "done"}
    /\ SessionFree(sid)
    /\ nLangOps < MaxLangOps
    /\ langCall' = [langCall EXCEPT ![c] =
            [NoLangCall EXCEPT !.pc = "check", !.op = "ask", !.sid = sid,
                               !.cachedAtStart = userLanguage[sid]]]
    /\ nLangOps' = nLangOps + 1
    /\ UNCHANGED userLanguage
    /\ UNCHANGED NotLang

\* LangCheck with the cache ignored: every call goes on to detect.
LangCheckAlwaysDetect(c) ==
    /\ langCall[c].pc = "check"
    /\ langCall' = [langCall EXCEPT ![c].pc = "detect"]
    /\ UNCHANGED <<userLanguage, nLangOps>>
    /\ UNCHANGED NotLang

\* if llm.userLanguage[SessionId] == "": a read of the map; a cached
\* language is used as it is.
LangCheck(c) ==
    /\ langCall[c].pc = "check"
    /\ langCall' = [langCall EXCEPT ![c] =
            IF userLanguage[langCall[c].sid] = ""
            THEN [@ EXCEPT !.pc = "detect"]
            ELSE [@ EXCEPT !.pc = "done", !.used = userLanguage[langCall[c].sid]]]
    /\ UNCHANGED <<userLanguage, nLangOps>>
    /\ UNCHANGED NotLang

\* llm.GetQueryLanguage: the call to the detection LLM.
LangDetect(c, answer) ==
    /\ langCall[c].pc = "detect"
    /\ langCall' = [langCall EXCEPT ![c] =
            IF answer # "error" /\ GetQueryLanguage(answer) # "NONE"
            THEN [@ EXCEPT !.pc = "store", !.called = TRUE,
                           !.detected = GetQueryLanguage(answer)]
            ELSE [@ EXCEPT !.pc = "recheck", !.called = TRUE, !.detected = "error"]]
    /\ UNCHANGED <<userLanguage, nLangOps>>
    /\ UNCHANGED NotLang

\* llm.userLanguage[SessionId] = userQueryLanguage: a write of the map.
LangStore(c) ==
    /\ langCall[c].pc = "store"
    /\ userLanguage' = [userLanguage EXCEPT ![langCall[c].sid] = langCall[c].detected]
    /\ langCall' = [langCall EXCEPT ![c].pc = "recheck"]
    /\ UNCHANGED nLangOps
    /\ UNCHANGED NotLang

\* if detectionError != nil || llm.userLanguage[SessionId] == "": a read
\* of the map; "{language}" leaves the detection to the answering LLM.
LangRecheck(c) ==
    /\ langCall[c].pc = "recheck"
    /\ langCall' = [langCall EXCEPT ![c] =
            IF langCall[c].detected = "error" \/ userLanguage[langCall[c].sid] = ""
            THEN [@ EXCEPT !.pc = "done", !.used = "{language}"]
            ELSE [@ EXCEPT !.pc = "done", !.used = userLanguage[langCall[c].sid]]]
    /\ UNCHANGED <<userLanguage, nLangOps>>
    /\ UNCHANGED NotLang

\* PersistentMemory.DeleteMemory is entered for the session.
LangDeleteStart(c, sid) ==
    /\ langCall[c].pc \in {"idle", "done"}
    /\ SessionFree(sid)
    /\ nLangOps < MaxLangOps
    /\ langCall' = [langCall EXCEPT ![c] =
            [NoLangCall EXCEPT !.pc = "clear", !.op = "delete", !.sid = sid]]
    /\ nLangOps' = nLangOps + 1
    /\ UNCHANGED userLanguage
    /\ UNCHANGED NotLang

\* pm.lLMContainer.userLanguage[sessionID] = "": a write of the map.
LangClear(c) ==
    /\ langCall[c].pc = "clear"
    /\ userLanguage' = [userLanguage EXCEPT ![langCall[c].sid] = ""]
    /\ langCall' = [d \in LangCallers |->
            IF d = c THEN [langCall[d] EXCEPT !.pc = "done"]
            ELSE IF langCall[d].sid = langCall[c].sid /\ langCall[d].op = "ask"
                    /\ langCall[d].pc \notin {"idle", "done"}
            THEN [langCall[d] EXCEPT !.deletedSince = TRUE]
            ELSE langCall[d]]
    /\ UNCHANGED nLangOps
    /\ UNCHANGED NotLang

InitLang == IdleStore /\ IdleKey /\ IdleAsk /\ IdlePM /\ IdleSearch /\ IdleLang /\ IdleLexical /\ IdleHybrid /\ IdleTools /\ IdleSweeper /\ IdleSplit

NextLang ==
    \/ \E c \in LangCallers, sid \in LangSessions : LangStart(c, sid)
    \/ \E c \in LangCallers : LangCheck(c)
    \/ \E c \in LangCallers, answer \in DetectionAnswers : LangDetect(c, answer)
    \/ \E c \in LangCallers : LangStore(c)
    \/ \E c \in LangCallers : LangRecheck(c)
    \/ \E c \in LangCallers, sid \in LangSessions : LangDeleteStart(c, sid)
    \/ \E c \in LangCallers : LangClear(c)

SpecLang == InitLang /\ [][NextLang]_vars

\* C13: an AskLLM that began when the session's language was cached, with
\* no deletion of the session's memory since, made no call to the detection
\* LLM and used the cached language.
C13_CachedLanguageUsed ==
    \A c \in LangCallers :
        /\ langCall[c].op = "ask" /\ langCall[c].pc = "done"
        /\ langCall[c].cachedAtStart # "" /\ ~langCall[c].deletedSince
        => ~langCall[c].called /\ langCall[c].used \notin {"", "{language}"}

\* A later AskLLM of a session that answered from the cache while another
\* call has just detected a language for the other session.
C13_Witness ==
    \E c, d \in LangCallers :
        /\ langCall[c].op = "ask" /\ langCall[c].pc = "done"
        /\ langCall[c].cachedAtStart = "French" /\ ~langCall[c].called
        /\ langCall[c].used = "French"
        /\ langCall[d].op = "ask" /\ langCall[d].called /\ langCall[d].sid # langCall[c].sid

\* The steps that read and that write the map llm.userLanguage.
LangReads == {"check", "recheck"}

LangWrites == {"store", "clear"}

\* C14: no two calls for different sessions are about to access the cache
\* map at the same time, one of them writing.
C14_CacheGuarded ==
    \A c, d \in LangCallers :
        /\ c # d /\ langCall[c].sid # langCall[d].sid
        /\ langCall[c].sid # "" /\ langCall[d].sid # ""
        =>  ~(/\ langCall[c].pc \in LangWrites
              /\ langCall[d].pc \in LangReads \cup LangWrites)

\* C28: an AskLLM without a sessionId never answers from the language
\* cache: it makes its own detection call.
C28_NoSessionNoCache ==
    \A c \in LangCallers :
        langCall[c].op = "ask" /\ langCall[c].pc = "done" /\ langCall[c].sid = ""
        => langCall[c].called

\* An AskLLM of a session that made no detection call found a language
\* cached under its own sessionId when it began.
C28_SessionsSeparate ==
    \A c \in LangCallers :
        /\ langCall[c].op = "ask" /\ langCall[c].pc = "done"
        /\ langCall[c].sid # "" /\ ~langCall[c].called
        => langCall[c].cachedAtStart # "" /\ langCall[c].used \notin {"", "{language}"}

(***************************************************************************)
(* The tool-call loop of AskLLM.  The request carries tools and a map of   *)
(* handlers by name; the first GenerateContent returns tool calls, a call  *)
(* being its ID and the name of its function; msgs collects what the loop  *)
(* appends to the message list.                                            *)
(***************************************************************************)
\* llmclient.GenerateContent(ctx, messageHistory, WithTools...): an error is
\* returned; otherwise the assistant message with the tool calls is appended.
ToolsFirstCall(handlers, names, llmErr) ==
    /\ toolRun.pc = "none"
    /\ LET calls == [i \in 1..Len(names) |-> [ID |-> i, Name |-> names[i]]]
       IN  toolRun' =
             IF llmErr
             THEN [toolRun EXCEPT !.pc = "done", !.handlers = handlers, !.err = TRUE]
             ELSE [toolRun EXCEPT !.pc = "handlers", !.handlers = handlers, !.calls = calls,
                                  !.msgs = <<[Role |-> "ai", ToolCalls |-> calls]>>]
    /\ UNCHANGED NotTools

\* One turn of the loop over respchoice.ToolCalls: a call whose name has no
\* handler is passed over; arguments that are not JSON end the process
\* (log.Fatal); a handler error is returned; otherwise the tool message is
\* appended.
ToolsHandle(outcome) ==
    /\ toolRun.pc = "handlers"
    /\ toolRun.next <= Len(toolRun.calls)
    /\ LET tc == toolRun.calls[toolRun.next]
       IN  toolRun' =
             IF tc.Name \notin toolRun.handlers
             THEN [toolRun EXCEPT !.next = @ + 1]
             ELSE IF outcome = "badargs" THEN [toolRun EXCEPT !.pc = "fatal"]
             ELSE IF outcome = "error" THEN [toolRun EXCEPT !.pc = "done", !.err = TRUE]
             ELSE [toolRun EXCEPT !.next = @ + 1,
                     !.msgs = Append(@, [Role |-> "tool", ToolCallID |-> tc.ID,
                                         Name |-> tc.Name, Content |-> <<"result", tc.Name>>])]
    /\ UNCHANGED NotTools

\* After the loop: GenerateContent(ctx, msgs, calloptions...) again, an error
\* returned; then the memory write, when the request allows one.
ToolsRepeat(llmErr, memoryAddAllowed) ==
    /\ toolRun.pc = "handlers"
    /\ toolRun.next > Len(toolRun.calls)
    /\ toolRun' = [toolRun EXCEPT !.pc = "done", !.repeated = TRUE, !.err = llmErr,
                                  !.memoryWritten = ~llmErr /\ memoryAddAllowed]
    /\ UNCHANGED NotTools

InitTools == IdleStore /\ IdleKey /\ IdleAsk /\ IdlePM /\ IdleSearch /\ IdleLang /\ IdleLexical /\ IdleHybrid /\ IdleTools /\ IdleSweeper /\ IdleSplit

NextTools ==
    \/ \E handlers \in SUBSET {"f", "g"}, names \in SeqsUpTo({"f", "g"}, MaxToolCalls), llmErr \in BOOLEAN :
         ToolsFirstCall(handlers, names, llmErr)
    \/ \E outcome \in {"ok", "error", "badargs"} : ToolsHandle(outcome)
    \/ \E llmErr, memoryAddAllowed \in BOOLEAN : ToolsRepeat(llmErr, memoryAddAllowed)

SpecTools == InitTools /\ [][NextTools]_vars

\* C23: when the main generation is repeated, the message list holds, for
\* every tool call of the first response, a tool message with that call's id
\* and the handler's result.
C23_EveryToolCallAnswered ==
    toolRun.repeated =>
        \A i \in 1..Len(toolRun.calls) :
            \E j \in 1..Len(toolRun.msgs) :
                toolRun.msgs[j] = [Role |-> "tool", ToolCallID |-> toolRun.calls[i].ID,
                                   Name |-> toolRun.calls[i].Name,
                                   Content |-> <<"result", toolRun.calls[i].Name>>]

\* The tool calls whose name has a handler are answered, in order, and no
\* other tool message is appended.
C23_HandledToolCallsAnswered ==
    toolRun.repeated =>
        LET handled == SelectSeq(toolRun.calls, LAMBDA tc : tc.Name \in toolRun.handlers)
        IN  SubSeq(toolRun.msgs, 2, Len(toolRun.msgs)) =
                [i \in 1..Len(handled) |->
                    [Role |-> "tool", ToolCallID |-> handled[i].ID, Name |-> handled[i].Name,
                     Content |-> <<"result", handled[i].Name>>]]

\* A handler or LLM error in the loop is returned and no memory is written.
C23_ErrorNoMemoryWrite ==
    toolRun.err => toolRun.pc = "done" /\ ~toolRun.memoryWritten

(***************************************************************************)
(* The ephemeral MemoryManager and its sweeper.  Every operation holds the *)
(* manager's mutex from beginning to end, so each is one step.  The ticker *)
(* fires every SweepMinutes; the manager is made with MemoryTTL minutes.   *)
(***************************************************************************)
MemoryTTL == 300
SweepMinutes == 10

\* Time passes, by half a sweep period; not past a tick the sweeper owes.
Tick ==
    /\ clock + SweepMinutes \div 2 <= MaxClock
    /\ clock < lastSweep + SweepMinutes
    /\ clock' = clock + SweepMinutes \div 2
    /\ UNCHANGED <<memoryStart, lastSweep, evicted, lastGet>>
    /\ UNCHANGED NotSweeper

\* MemoryManager.AddMemory: the session is stored anew, started now.
SweeperAddMemory(sessionID) ==
    /\ memoryStart' = [memoryStart EXCEPT ![sessionID] = [exists |-> TRUE, MemoryStartTime |-> clock]]
    /\ UNCHANGED <<clock, lastSweep, evicted, lastGet>>
    /\ UNCHANGED NotSweeper

\* MemoryManager.GetMemory.
SweeperGetMemory(sessionID) ==
    /\ lastGet' = IF memoryStart[sessionID].exists THEN "found" ELSE "absent"
    /\ UNCHANGED <<memoryStart, clock, lastSweep, evicted>>
    /\ UNCHANGED NotSweeper

\* MemoryManager.DeleteMemory.
SweeperDeleteMemory(sessionID) ==
    /\ memoryStart' = [memoryStart EXCEPT ![sessionID] = [exists |-> FALSE, MemoryStartTime |-> 0]]
    /\ UNCHANGED <<clock, lastSweep, evicted, lastGet>>
    /\ UNCHANGED NotSweeper

\* The sweep with the sessions older than one sweep period deleted.
cleanupSessionsOfLastPeriod(map, now) ==
    [s \in DOMAIN map |->
        IF map[s].exists /\ now - map[s].MemoryStartTime > SweepMinutes
        THEN [exists |-> FALSE, MemoryStartTime |-> 0] ELSE map[s]]

\* The body of one tick of cleanupExpiredSessions: every session with
\* time.Since(mem.MemoryStartTime) > m.ttl is deleted.
cleanupExpiredSessions(map, now) ==
    [s \in DOMAIN map |->
        IF map[s].exists /\ now - map[s].MemoryStartTime > MemoryTTL
        THEN [exists |-> FALSE, MemoryStartTime |-> 0] ELSE map[s]]

\* The ticker fires and the sweeper runs.
Sweep ==
    /\ clock = lastSweep + SweepMinutes
    /\ memoryStart' = cleanupExpiredSessions(memoryStart, clock)
    /\ evicted' = {s \in SweeperSessions : memoryStart[s].exists /\ ~memoryStart'[s].exists}
    /\ lastSweep' = clock
    /\ UNCHANGED <<clock, lastGet>>
    /\ UNCHANGED NotSweeper

InitSweeper == IdleStore /\ IdleKey /\ IdleAsk /\ IdlePM /\ IdleSearch /\ IdleLang /\ IdleLexical /\ IdleHybrid /\ IdleTools /\ IdleSweeper /\ IdleSplit

NextSweeper ==
    \/ Tick
    \/ \E sessionID \in SweeperSessions : SweeperAddMemory(sessionID)
    \/ \E sessionID \in SweeperSessions : SweeperGetMemory(sessionID)
    \/ \E sessionID \in SweeperSessions : SweeperDeleteMemory(sessionID)
    \/ Sweep

SpecSweeper == InitSweeper /\ [][NextSweeper]_vars

\* C24: a sweeper run removes a session only if the time since its last
\* AddMemory exceeds the TTL, removes every session whose age exceeds the
\* TTL, and leaves alone a session added since the run before; AddMemory
\* sets the session's start time to the present.
C24_SweeperByTTL ==
    [][\A s \in SweeperSessions :
         /\ lastSweep' # lastSweep =>
               /\ memoryStart[s].exists /\ ~memoryStart'[s].exists
                     => clock - memoryStart[s].MemoryStartTime > MemoryTTL
               /\ memoryStart[s].exists /\ clock - memoryStart[s].MemoryStartTime > MemoryTTL
                     => ~memoryStart'[s].exists
               /\ memoryStart[s].exists /\ memoryStart[s].MemoryStartTime >= lastSweep
                     => memoryStart'[s] = memoryStart[s]
         /\ memoryStart'[s].exists /\ memoryStart'[s] # memoryStart[s]
               => memoryStart'[s].MemoryStartTime = clock]_vars

\* A sweeper run has just removed an expired session and kept one that was
\* added again since the run before.
C24_Witness ==
    /\ lastSweep = clock
    /\ evicted # {}
    /\ \E s \in SweeperSessions : memoryStart[s].exists /\ clock - memoryStart[s].MemoryStartTime < SweepMinutes

(***************************************************************************)
(* splitTextIntoFixedSizedChunks, one step for each iteration of its loop. *)
(* start is the index of the source, counted from 0; windows is the text   *)
(* of the windows rawText[start:end] taken so far, one after the other.    *)
(***************************************************************************)
\* The call: a text no longer than chunkSize is returned whole.
splitTextIntoFixedSizedChunks(rawText, chunkSize) ==
    /\ split.pc = "none"
    /\ split' = IF Len(rawText) <= chunkSize
                THEN [split EXCEPT !.pc = "done", !.rawText = rawText, !.chunkSize = chunkSize,
                                   !.chunks = <<rawText>>, !.windows = rawText]
                ELSE [split EXCEPT !.pc = "loop", !.rawText = rawText, !.chunkSize = chunkSize]
    /\ UNCHANGED NotSplit

\* One iteration of `for start < len(rawText)`: the window of chunkSize
\* symbols, cut back to its last space when the symbol after it is not a
\* space, is appended with the spaces at its ends trimmed; start = end.
SplitIteration ==
    /\ split.pc = "loop"
    /\ split.iterations < MaxIterations
    /\ LET rawText == split.rawText
           start == split.start
           end0 == IF start + split.chunkSize > Len(rawText) THEN Len(rawText)
                   ELSE start + split.chunkSize
           chunk0 == SubSeq(rawText, start + 1, end0)
           spaces == {i \in 0..(Len(chunk0) - 1) : chunk0[i + 1] = " "}
           lastSpace == IF spaces = {} THEN -1 ELSE CHOOSE i \in spaces : \A j \in spaces : j <= i
           end == IF end0 < Len(rawText) /\ rawText[end0 + 1] # " " /\ lastSpace # -1
                  THEN start + lastSpace ELSE end0
           chunk == SubSeq(rawText, start + 1, end)
           inner == {i \in 1..Len(chunk) : chunk[i] # " "}
           trimmed == IF inner = {} THEN <<>>
                      ELSE SubSeq(chunk, CHOOSE i \in inner : \A j \in inner : i <= j,
                                         CHOOSE i \in inner : \A j \in inner : j <= i)
       IN  split' = [split EXCEPT !.chunks = Append(@, trimmed), !.windows = @ \o chunk,
                                  !.prevStart = start, !.start = end, !.iterations = @ + 1,
                                  !.pc = IF end < Len(rawText) THEN "loop" ELSE "done"]
    /\ UNCHANGED NotSplit

InitSplit == IdleStore /\ IdleKey /\ IdleAsk /\ IdlePM /\ IdleSearch /\ IdleLang /\ IdleLexical /\ IdleHybrid /\ IdleTools /\ IdleSweeper /\ IdleSplit

NextSplit ==
    \/ /\ split.pc = "none"
       /\ \E rawText \in SeqsUpTo({"a", " "}, MaxTextLen), chunkSize \in 1..MaxChunkSize :
            splitTextIntoFixedSizedChunks(rawText, chunkSize)
    \/ SplitIteration

SpecSplit == InitSplit /\ [][NextSplit]_vars

\* C30: the window start strictly advances on every iteration of the loop.
C30_StartAdvances == split.iterations > 0 => split.start > split.prevStart

\* A call that has returned took windows that, one after the other, are the
\* whole text.
C30_WindowsCoverText == split.pc = "done" => split.windows = split.rawText

\* A window that holds a space after its first symbol, or none, advances.
C30_AdvancesUnlessLeadingSpace ==
    split.iterations > 0 /\ split.start = split.prevStart =>
        /\ split.rawText[split.start + 1] = " "
        /\ split.start + split.chunkSize < Len(split.rawText)
        /\ \A i \in (split.start + 2)..(split.start + split.chunkSize + 1) : split.rawText[i] # " "

(***************************************************************************)
(* Lexical search: performLexicalSearch and createTextIndex.               *)
(***************************************************************************)
\* The queries: strings over a letter, a blank and a line break.  None of
\* these is a character escapeRedisSearchQuery changes.
QuerySymbols == {"a", " ", "\n"}

Queries == UNION {[1..n -> QuerySymbols] : n \in 0..MaxQueryLen}

\* The pieces of s between separators, runs of separators counting as one
\* (the empty pieces a leading or trailing separator yields are left out:
\* their length is 0).
RECURSIVE Fields(_, _)
Fields(s, seps) ==
    IF s = <<>> THEN <<>>
    ELSE IF s[1] \in seps THEN Fields(Tail(s), seps)
    ELSE LET n == CHOOSE k \in 1..Len(s) :
                     /\ \A i \in 1..k : s[i] \notin seps
                     /\ (k = Len(s) \/ s[k + 1] \in seps)
         IN  <<SubSeq(s, 1, n)>> \o Fields(SubSeq(s, n + 1, Len(s)), seps)

\* regexp `[ ,\.]+`
WordSeparators == {" ", ",", "."}

\* The words of every line that are longer than 2.
RECURSIVE KeywordsOfLines(_)
KeywordsOfLines(lines) ==
    IF lines = <<>> THEN <<>>
    ELSE SelectSeq(Fields(Head(lines), WordSeparators), LAMBDA word : Len(word) > 2)
             \o KeywordsOfLines(Tail(lines))

Keywords(searchQuery) == KeywordsOfLines(Fields(searchQuery, {"\n"}))

\* performLexicalSearch: createTextIndex first (FT.INFO, and FT.CREATE when
\* that fails), then the keywords, then FT.SEARCH unless there is none.
\* storeDown: the store answers every command with an error.
PerformLexicalSearch(searchQuery, storeDown, found) ==
    /\ nLexOps < MaxLexOps
    /\ nLexOps' = nLexOps + 1
    /\ LET infoErr == storeDown \/ ~textIndexExists
           createCmds == IF infoErr THEN <<"FT.INFO", "FT.CREATE">> ELSE <<"FT.INFO">>
           createErr == infoErr /\ storeDown
           keywords == Keywords(searchQuery)
       IN  /\ textIndexExists' = (textIndexExists \/ (infoErr /\ ~storeDown))
           /\ IF createErr
              THEN /\ found = FALSE
                   /\ lexical' = [pc |-> "done", query |-> searchQuery, commands |-> createCmds,
                                  keywords |-> <<>>, err |-> "failed to create text index",
                                  hits |-> FALSE]
              ELSE IF keywords = <<>>
              THEN /\ found = FALSE
                   /\ lexical' = [pc |-> "done", query |-> searchQuery, commands |-> createCmds,
                                  keywords |-> keywords, err |-> "", hits |-> FALSE]
              ELSE lexical' = [pc |-> "done", query |-> searchQuery,
                               commands |-> Append(createCmds, "FT.SEARCH"),
                               keywords |-> keywords, err |-> "", hits |-> found]
    /\ UNCHANGED NotLexical

InitLexical == IdleStore /\ IdleKey /\ IdleAsk /\ IdlePM /\ IdleSearch /\ IdleLang /\ IdleLexical /\ IdleHybrid /\ IdleTools /\ IdleSweeper /\ IdleSplit

NextLexical ==
    \E searchQuery \in Queries, storeDown, found \in BOOLEAN :
        PerformLexicalSearch(searchQuery, storeDown, found)

SpecLexical == InitLexical /\ [][NextLexical]_vars

\* The tokens of the latest search's query.
TokensOfQuery ==
    LET lines == Fields(lexical.query, {"\n"})
    IN  UNION {{Fields(lines[i], WordSeparators)[j] :
                    j \in 1..Len(Fields(lines[i], WordSeparators))} : i \in 1..Len(lines)}

\* C16: a lexical search whose query holds only tokens of length 3 or less
\* returns an empty result and no error, and sent no command to the store.
C16_ShortTokensNoStoreCommand ==
    lexical.pc = "done" /\ (\A word \in TokensOfQuery : Len(word) <= 3) =>
        lexical.err = "" /\ ~lexical.hits /\ lexical.commands = <<>>

\* With no token longer than 2 and a store that answers, the result is
\* empty and no FT.SEARCH was sent.
C16_TinyTokensNoSearch ==
    /\ lexical.pc = "done" /\ lexical.err = ""
    /\ \A word \in TokensOfQuery : Len(word) <= 2
    => ~lexical.hits /\ \A i \in 1..Len(lexical.commands) : lexical.commands[i] # "FT.SEARCH"

\* A token of length 3 is searched for.
C16_ThreeLetterTokenNotSearched ==
    lexical.pc = "done" /\ (\A word \in TokensOfQuery : Len(word) <= 3) =>
        \A i \in 1..Len(lexical.commands) : lexical.commands[i] # "FT.SEARCH"

(***************************************************************************)
(* Hybrid search: HybridSearch, combineSearchResults, calculateRRF.        *)
(* float64 values are exact fractions here: rounding is left out, the NaN  *)
(* of 0/0 is kept.                                                         *)
(***************************************************************************)

FracAdd(x, y) == Frac(x.num * y.den + y.num * x.den, x.den * y.den)

FracMul(x, y) == Frac(x.num * y.num, x.den * y.den)

\* x / y for y >= 0: 0/0 is NaN.
FracDiv(x, y) == Frac(x.num * y.den, x.den * y.num)

\* x > y as Go compares float64 values: false when either is NaN.
\* Denominators are never negative.
FracGreater(x, y) == x.den # 0 /\ y.den # 0 /\ x.num * y.den > y.num * x.den

FracEqual(x, y) == x.den # 0 /\ y.den # 0 /\ x.num * y.den = y.num * x.den

\* Weights a caller can put into a HybridSearchConfig, in tenths.
WeightTenths == {-1, 0, 3, 7, 11}

\* Scores the store reports for a document, in tenths.
ScoreTenths == {5, 9}

RRFConstant == 60

DefaultVectorWeight == 7

DefaultLexicalWeight == 3

DefaultHybridSearchConfig ==
    [VectorWeight |-> DefaultVectorWeight, LexicalWeight |-> DefaultLexicalWeight, UseRRF |-> FALSE]

HybridSearchConfigs == [VectorWeight : WeightTenths, LexicalWeight : WeightTenths, UseRRF : BOOLEAN]


\* What a search of the store returns: documents with distinct ids, best
\* score first.
StoreResults ==
    {r \in UNION {[1..n -> [id : 1..MaxHybridDocs, score : ScoreTenths]] : n \in 0..MaxHybridDocs} :
        /\ \A i, j \in 1..Len(r) : i # j => r[i].id # r[j].id
        /\ \A i \in 1..(Len(r) - 1) : r[i].score >= r[i + 1].score}

\* performVectorSearch / parseRedisSearchResults: the store's documents as
\* HybridSearchResult values.
VectorResultsOf(r) ==
    [i \in 1..Len(r) |->
        [id |-> r[i].id, VectorScore |-> Frac(r[i].score, 10), LexicalScore |-> Frac(0, 1),
         HybridScore |-> Frac(0, 1), SearchType |-> "vector"]]

LexicalResultsOf(r) ==
    [i \in 1..Len(r) |->
        [id |-> r[i].id, VectorScore |-> Frac(0, 1), LexicalScore |-> Frac(r[i].score, 10),
         HybridScore |-> Frac(0, 1), SearchType |-> "lexical"]]

\* The rank (from 1) of a document in a result list, 0 when it is not there.
findRank(docID, results) ==
    IF \E i \in 1..Len(results) : results[i].id = docID
    THEN CHOOSE i \in 1..Len(results) : results[i].id = docID
    ELSE 0

calculateRRF(vectorRank, lexicalRank, constant, vectorWeight, lexicalWeight) ==
    LET v == IF vectorRank > 0
             THEN FracMul(vectorWeight, Frac(1, constant + vectorRank)) ELSE Frac(0, 1)
        l == IF lexicalRank > 0
             THEN FracMul(lexicalWeight, Frac(1, constant + lexicalRank)) ELSE Frac(0, 1)
    IN  IF vectorRank > 0 /\ lexicalRank > 0 THEN FracAdd(v, l)
        ELSE IF vectorRank > 0 THEN v
        ELSE IF lexicalRank > 0 THEN l
        ELSE Frac(0, 1)

\* The same with the two scores added instead of weighted.
combineSearchResultsUnweighted(vectorResults, lexicalResults, config) ==
    LET ids == {vectorResults[i].id : i \in 1..Len(vectorResults)}
                 \cup {lexicalResults[i].id : i \in 1..Len(lexicalResults)}
        One(docID) ==
            LET vr == findRank(docID, vectorResults)
                lr == findRank(docID, lexicalResults)
            IN  IF vr > 0 /\ lr > 0
                THEN [vectorResults[vr] EXCEPT
                        !.HybridScore = FracAdd(vectorResults[vr].VectorScore, lexicalResults[lr].LexicalScore),
                        !.LexicalScore = lexicalResults[lr].LexicalScore,
                        !.SearchType = "hybrid"]
                ELSE IF vr > 0
                THEN [vectorResults[vr] EXCEPT
                        !.HybridScore = vectorResults[vr].VectorScore, !.SearchType = "vector"]
                ELSE [lexicalResults[lr] EXCEPT
                        !.HybridScore = lexicalResults[lr].LexicalScore, !.SearchType = "lexical"]
    IN  {One(docID) : docID \in ids}

\* combineSearchResults: one entry per document id, scored by rank (RRF) or
\* by the weighted scores; the result is the set of the map's values.
combineSearchResults(vectorResults, lexicalResults, config) ==
    LET ids == {vectorResults[i].id : i \in 1..Len(vectorResults)}
                 \cup {lexicalResults[i].id : i \in 1..Len(lexicalResults)}
        One(docID) ==
            LET vr == findRank(docID, vectorResults)
                lr == findRank(docID, lexicalResults)
            IN  IF vr > 0 /\ lr > 0
                THEN [vectorResults[vr] EXCEPT
                        !.HybridScore =
                            IF config.UseRRF
                            THEN calculateRRF(vr, lr, RRFConstant, config.VectorWeight, config.LexicalWeight)
                            ELSE FracAdd(FracMul(config.VectorWeight, vectorResults[vr].VectorScore),
                                         FracMul(config.LexicalWeight, lexicalResults[lr].LexicalScore)),
                        !.LexicalScore = lexicalResults[lr].LexicalScore,
                        !.SearchType = "hybrid"]
                ELSE IF vr > 0
                THEN [vectorResults[vr] EXCEPT
                        !.HybridScore =
                            IF config.UseRRF
                            THEN calculateRRF(vr, 0, RRFConstant, config.VectorWeight, config.LexicalWeight)
                            ELSE FracMul(config.VectorWeight, vectorResults[vr].VectorScore),
                        !.SearchType = "vector"]
                ELSE [lexicalResults[lr] EXCEPT
                        !.HybridScore =
                            IF config.UseRRF
                            THEN calculateRRF(0, lr, RRFConstant, config.VectorWeight, config.LexicalWeight)
                            ELSE FracMul(config.LexicalWeight, lexicalResults[lr].LexicalScore),
                        !.SearchType = "lexical"]
    IN  {One(docID) : docID \in ids}

\* The orders sort.Slice can leave the results in: no entry stands before
\* one with a greater HybridScore; equal scores, and NaN scores, come in any
\* order.
SortedByHybridScore(results) ==
    {order \in [1..Cardinality(results) -> results] :
        /\ \A i, j \in 1..Cardinality(results) : i # j => order[i] # order[j]
        /\ \A i, j \in 1..Cardinality(results) :
              i < j => ~FracGreater(order[j].HybridScore, order[i].HybridScore)}

\* The configuration's weights after validation: divided by their total
\* unless that is 1.
NormalizedWeights(config) ==
    LET VectorWeight == Frac(config.VectorWeight, 10)
        LexicalWeight == Frac(config.LexicalWeight, 10)
        total == FracAdd(VectorWeight, LexicalWeight)
    IN  IF ~FracEqual(total, Frac(1, 1))
        THEN [VectorWeight |-> FracDiv(VectorWeight, total),
              LexicalWeight |-> FracDiv(LexicalWeight, total), UseRRF |-> config.UseRRF]
        ELSE [VectorWeight |-> VectorWeight, LexicalWeight |-> LexicalWeight,
              UseRRF |-> config.UseRRF]

\* HybridSearch, once in a run.  isNil: the caller passed no configuration.  vectorErr: the
\* vector search failed with an error other than "no such index".
\* lexicalErr: "" or the step of performLexicalSearch that failed.
HybridSearch(isNil, given, vectorStore, vectorErr, lexicalStore, lexicalErr, rowCount) ==
    /\ hybrid.pc = "none"
    /\ isNil => given = DefaultHybridSearchConfig
    /\ LET start == [NoHybrid EXCEPT !.pc = "done", !.given = given]
       IN  IF given.VectorWeight < 0 \/ given.VectorWeight > 10
           THEN /\ ~vectorErr /\ lexicalErr = "" /\ vectorStore = <<>> /\ lexicalStore = <<>>
                /\ rowCount = 1
                /\ hybrid' = [start EXCEPT !.err = "vector weight must be between 0 and 1"]
                /\ UNCHANGED textIndexExists
           ELSE IF given.LexicalWeight < 0 \/ given.LexicalWeight > 10
           THEN /\ ~vectorErr /\ lexicalErr = "" /\ vectorStore = <<>> /\ lexicalStore = <<>>
                /\ rowCount = 1
                /\ hybrid' = [start EXCEPT !.err = "lexical weight must be between 0 and 1"]
                /\ UNCHANGED textIndexExists
           ELSE LET config == NormalizedWeights(given)
                    used == [start EXCEPT !.VectorWeight = config.VectorWeight,
                                          !.LexicalWeight = config.LexicalWeight,
                                          !.UseRRF = config.UseRRF]
                IN  IF vectorErr
                    THEN /\ lexicalErr = "" /\ vectorStore = <<>> /\ lexicalStore = <<>>
                         /\ rowCount = 1
                         /\ hybrid' = [used EXCEPT !.err = "vector search failed",
                                                   !.searches = <<"vector">>]
                         /\ UNCHANGED textIndexExists
                    ELSE IF lexicalErr # ""
                    THEN /\ lexicalStore = <<>> /\ rowCount = 1
                         /\ hybrid' = [used EXCEPT !.err = "lexical search failed",
                                                   !.searches = <<"vector", "lexical">>]
                         /\ textIndexExists' = (textIndexExists \/ lexicalErr = "search")
                    ELSE /\ \E hybridResults \in SortedByHybridScore(
                                    combineSearchResults(VectorResultsOf(vectorStore),
                                                         LexicalResultsOf(lexicalStore), config)) :
                              LET limit == IF rowCount > Len(hybridResults)
                                           THEN Len(hybridResults) ELSE rowCount
                              IN  hybrid' = [used EXCEPT
                                               !.searches = <<"vector", "lexical">>,
                                               !.results = SubSeq(hybridResults, 1, limit)]
                         /\ textIndexExists' = TRUE
    /\ UNCHANGED NotHybrid

InitHybrid == IdleStore /\ IdleKey /\ IdleAsk /\ IdlePM /\ IdleSearch /\ IdleLang /\ IdleLexical /\ IdleHybrid /\ IdleTools /\ IdleSweeper /\ IdleSplit

NextHybrid ==
    /\ hybrid.pc = "none"
    /\ \E isNil \in BOOLEAN, given \in HybridSearchConfigs, vectorStore, lexicalStore \in StoreResults :
         \E vectorErr \in BOOLEAN, lexicalErr \in {"", "create", "search"}, rowCount \in 1..MaxHybridDocs :
            HybridSearch(isNil, given, vectorStore, vectorErr, lexicalStore, lexicalErr, rowCount)

SpecHybrid == InitHybrid /\ [][NextHybrid]_vars

\* The weights of the latest call's configuration were both within [0, 1].
WeightsInRange ==
    /\ hybrid.given.VectorWeight >= 0 /\ hybrid.given.VectorWeight <= 10
    /\ hybrid.given.LexicalWeight >= 0 /\ hybrid.given.LexicalWeight <= 10

\* C17: a HybridSearch whose configuration has both weights within [0, 1]
\* fuses with weights that sum to 1; one with a weight outside [0, 1]
\* returns an error and has run no search.
C17_AcceptedWeightsSumToOne ==
    hybrid.pc = "done" =>
        IF WeightsInRange
        THEN FracEqual(FracAdd(hybrid.VectorWeight, hybrid.LexicalWeight), Frac(1, 1))
        ELSE hybrid.err # "" /\ hybrid.searches = <<>>

\* A weight outside [0, 1] is rejected before any search.
C17_OutOfRangeRejected ==
    hybrid.pc = "done" /\ ~WeightsInRange => hybrid.err # "" /\ hybrid.searches = <<>>

\* Weights within [0, 1] that are not both 0 sum to 1 when used.
C17_PositiveTotalSumsToOne ==
    /\ hybrid.pc = "done" /\ WeightsInRange
    /\ hybrid.given.VectorWeight + hybrid.given.LexicalWeight > 0
    => FracEqual(FracAdd(hybrid.VectorWeight, hybrid.LexicalWeight), Frac(1, 1))

\* x >= y as Go compares float64 values.
FracAtLeast(x, y) == FracGreater(x, y) \/ FracEqual(x, y)

====
